---- MODULE Spec2Model ----
(***************************************************************************)
(* Breakfast-ordering backend: the session store, the order ledger, the   *)
(* payment settlement state and the change notifier of src/server.js      *)
(* (MongoDB variant, lines 1-700), with the Mongoose schemas of           *)
(* src/models/Session.js applied on every save.                           *)
(*                                                                         *)
(* Every HTTP handler is one action: find the session, run the guards in  *)
(* source order, mutate, save, emit, respond.  `resp` is the response of  *)
(* the last handler that ran and `emitted` is what it sent to the         *)
(* session's socket room (NoEvent when it sent nothing).  `overwrote` is  *)
(* a history variable: the payment statuses that the last treat replaced  *)
(* (empty after every other handler); no handler reads it.                *)
(*                                                                         *)
(* A handler suspends at `await session.save()`.  Where requests overlap  *)
(* (specification SpecRace) submitOrder is therefore three steps: the     *)
(* read with the checks and the change of the request's own copy, the     *)
(* save, which MongoDB applies as one update, and the emit with the       *)
(* response.  `requests` holds each such request with its own copy of the *)
(* document, and `version` is each document's __v in the store.  The other*)
(* specifications run every handler from its read to its response as one  *)
(* action, with no other request in between.                              *)
(*                                                                         *)
(* `swept` is a history variable: the ids of the sessions that the last   *)
(* retention sweep removed; no handler reads it.                          *)
(*                                                                         *)
(* `users` is the User collection of the account routes, `otpEnabled` the *)
(* OTP_ENABLED setting the server was started with, and `evicted` a       *)
(* history variable: the refresh tokens that the last issueTokens dropped *)
(* from the user's list.                                                  *)
(***************************************************************************)
EXTENDS Integers, Sequences, FiniteSets, TLC

VARIABLES sessions, now, resp, emitted, overwrote, requests, version, swept,
          users, otpEnabled, evicted

vars == <<sessions, now, resp, emitted, overwrote, requests, version, swept, users, otpEnabled, evicted>>

----------------------------------------------------------------------------
(* Bounds of the model *)

\* the clock runs over 0..MaxTime, one unit = one minute
MaxTime == 2

\* the number of overlapping submitOrder requests
MaxRequests == 3

\* the number of half retention periods (days) the clock can jump ahead
MaxDays == 3

----------------------------------------------------------------------------
(* Values *)

\* JavaScript null for a string field (paidBy, restaurantId)
NullStr == "<null>"

\* JavaScript null for a Date field (paidAt, deadline)
NullTime == -1

\* Minutes used when deadlineMinutes is missing or not positive
DefaultDeadlineMinutes == 60

\* 48 hours, in minutes: the age beyond which a session is removed
RetentionMinutes == 2880

\* JSON request values: a number, a string, or a field that is not sent
Num(n) == [t |-> "number", v |-> n]
Str(s) == [t |-> "string", v |-> s]
Undefined == [t |-> "undefined"]

\* Authenticated callers (req.user decoded from the access token)
Ann == [id |-> "u1", name |-> "Ann"]
Bob == [id |-> "u2", name |-> "Bob"]
Users == {Ann, Bob}
Cy == [id |-> "u3", name |-> "Cy"]

\* identities that open sessions in the model
Creators == {Ann}

\* session ids nanoid(8) can return in the model
SessionIds == {"s1"}

\* the ids of two sessions that exist side by side
SweepIds == {"s1", "s2"}

----------------------------------------------------------------------------
(* Strings as character sequences, so that trim() is computed *)

RECURSIVE TrimLeft(_)
TrimLeft(s) ==
  IF s # <<>> /\ Head(s) = " " THEN TrimLeft(Tail(s)) ELSE s

RECURSIVE TrimRight(_)
TrimRight(s) ==
  IF s # <<>> /\ s[Len(s)] = " " THEN TrimRight(SubSeq(s, 1, Len(s) - 1)) ELSE s

\* String.prototype.trim / Mongoose `trim: true`
Trim(s) == TrimRight(TrimLeft(s))

Tea == <<"T", "e", "a">>
Coffee == <<"C", "o", "f">>
PaddedTea == <<" ", "T", "e", "a", " ">>
Blank == <<" ">>

\* a request-body item
RawItem(n, p, q, u) == [name |-> n, price |-> p, quantity |-> q, unavailable |-> u]

TeaOrder == <<RawItem(PaddedTea, 10, 2, FALSE)>>
CoffeeOrder == <<RawItem(Coffee, 15, 1, FALSE)>>
FreeOrder == <<RawItem(Tea, 0, 1, FALSE)>>
TeaUnavailable == <<RawItem(Tea, 10, 2, TRUE)>>
BlankOrder == <<RawItem(Blank, 10, 1, FALSE)>>
TeaCoffee == <<RawItem(PaddedTea, 10, 2, FALSE), RawItem(Coffee, 15, 1, FALSE)>>
TeaThenBlank == <<RawItem(Tea, 10, 2, FALSE), RawItem(Blank, 10, 1, FALSE)>>
TeaThenNone == <<RawItem(Tea, 10, 2, FALSE), RawItem(Coffee, 15, 0, FALSE)>>
NegativeTea == <<RawItem(Tea, -5, 1, FALSE)>>

----------------------------------------------------------------------------
(* Schemas of src/models/Session.js *)

\* paymentSchema defaults: what `payment: {}` is cast to
DefaultPayment ==
  [status |-> "pending", method |-> "transfer", paidBy |-> NullStr,
   confirmedByHost |-> FALSE, paidAt |-> NullTime]

PaymentStatuses == {"pending", "paid", "cash", "treated"}
PaymentMethods == {"transfer", "cash", "treated"}

\* orderItemSchema: name trimmed, unavailable defaults to false
CastItem(i) ==
  [name |-> Trim(i.name), price |-> i.price, quantity |-> i.quantity,
   unavailable |-> i.unavailable]

----------------------------------------------------------------------------
(* Responses and events *)

Reply(op, code, error) == [op |-> op, code |-> code, error |-> error, treated |-> 0]
Ok(op) == Reply(op, 200, "")
NoResp == Reply("none", 0, "")

NoEvent == [event |-> "none"]

----------------------------------------------------------------------------
(* Cost allocator: calculateCosts *)

RECURSIVE Gcd(_, _)
Gcd(a, b) == IF b = 0 THEN a ELSE Gcd(b, a % b)

\* the exact quotient a / b (b > 0, a >= 0) in lowest terms
Ratio(a, b) ==
  LET g == IF a = 0 THEN b ELSE Gcd(a, b)
  IN [num |-> a \div g, den |-> b \div g]

\* n + r for an integer n and a ratio r
AddInt(n, r) == Ratio(n * r.den + r.num, r.den)

\* Mutation of ItemsTotal: the unavailable flag is not read
RECURSIVE ItemsTotalCountsUnavailable(_)
ItemsTotalCountsUnavailable(items) ==
  IF items = <<>> THEN 0
  ELSE Head(items).price * Head(items).quantity
       + ItemsTotalCountsUnavailable(Tail(items))

RECURSIVE ItemsTotal(_)
ItemsTotal(items) ==
  IF items = <<>> THEN 0
  ELSE (IF Head(items).unavailable THEN 0
        ELSE Head(items).price * Head(items).quantity)
       + ItemsTotal(Tail(items))

\* order.payment?.status ? order.payment : {legacy paymentSent migration}
CostPayment(order) ==
  IF order.payment.status # ""
  THEN order.payment
  ELSE [status |-> IF order.paymentSent THEN "paid" ELSE "pending",
        method |-> "transfer", paidBy |-> NullStr,
        confirmedByHost |-> FALSE, paidAt |-> NullTime]

CostEntry(order, share) ==
  [name |-> order.participantName,
   itemsTotal |-> ItemsTotal(order.items),
   deliveryShare |-> share,
   total |-> AddInt(ItemsTotal(order.items), share),
   items |-> order.items,
   payment |-> CostPayment(order),
   paymentSent |-> CostPayment(order).status # "pending"]

\* Mutation of calculateCosts: the entries come out last order first
calculateCostsReversed(session) ==
  LET n == Len(session.orders)
  IN [k \in 1..n |->
        CostEntry(session.orders[n + 1 - k], Ratio(session.deliveryFee, n))]

\* Mutation of calculateCosts: every order is charged the whole fee
calculateCostsWholeFee(session) ==
  [k \in 1..Len(session.orders) |->
     CostEntry(session.orders[k], Ratio(session.deliveryFee, 1))]

\* Mutation of calculateCosts: the fee is split among the orders that have
\* something to pay for
calculateCostsSplitAmongPayers(session) ==
  LET n == Len(session.orders)
      payers == Cardinality({k \in 1..n : ItemsTotal(session.orders[k].items) > 0})
  IN [k \in 1..n |->
        CostEntry(session.orders[k],
                  Ratio(session.deliveryFee, IF payers = 0 THEN n ELSE payers))]

calculateCosts(session) ==
  LET n == Len(session.orders)
  IN IF n = 0 THEN <<>>
     ELSE [k \in 1..n |->
             CostEntry(session.orders[k], Ratio(session.deliveryFee, n))]

----------------------------------------------------------------------------
(* Change notifier: io.to(sessionId).emit(...) *)

\* Mutation of SessionUpdated: io.emit(...), to every connected socket
SessionUpdatedToAll(session) ==
  [event |-> "session-updated", room |-> "*", orders |-> session.orders,
   costs |-> calculateCosts(session)]

\* room is the socket.io room the event is sent to: the sockets that sent
\* join-session with this id
SessionUpdated(session) ==
  [event |-> "session-updated", room |-> session.sessionId,
   orders |-> session.orders, costs |-> calculateCosts(session)]

FeeUpdated(session) ==
  [event |-> "session-updated", room |-> session.sessionId,
   orders |-> session.orders,
   costs |-> calculateCosts(session), deliveryFee |-> session.deliveryFee]

SessionClosed(session) == [event |-> "session-closed", room |-> session.sessionId]

\* restaurant is the Restaurant document of the session's restaurantId
RestaurantUpdated(session) ==
  [event |-> "session-updated", room |-> session.sessionId,
   orders |-> session.orders,
   costs |-> calculateCosts(session), restaurantId |-> session.restaurantId,
   restaurant |-> session.restaurantId]

----------------------------------------------------------------------------
(* Helpers shared by the handlers *)

\* the handler returns an error before it saves or emits anything
Fail(op, code, error) ==
  /\ resp' = Reply(op, code, error)
  /\ emitted' = NoEvent
  /\ overwrote' = {}
  /\ UNCHANGED <<sessions, now, requests, version, swept, users, otpEnabled, evicted>>

\* session.save() of a changed document, then emit and respond
Commit(sid, session, event, reply) ==
  /\ sessions' = [sessions EXCEPT ![sid] = session]
  /\ emitted' = event
  /\ resp' = reply
  /\ overwrote' = {}
  /\ UNCHANGED <<now, requests, version, swept, users, otpEnabled, evicted>>

\* the same, for a handler that replaces payments with "treated"
CommitTreat(sid, session, event, reply, old) ==
  /\ sessions' = [sessions EXCEPT ![sid] = session]
  /\ emitted' = event
  /\ resp' = reply
  /\ overwrote' = old
  /\ UNCHANGED <<now, requests, version, swept, users, otpEnabled, evicted>>

Exists(sid) == sid \in DOMAIN sessions

\* orders.findIndex(o => o.participantName === name); 0 when there is none
FindIndex(orders, name) ==
  IF \E k \in 1..Len(orders) : orders[k].participantName = name
  THEN CHOOSE k \in 1..Len(orders) :
         /\ orders[k].participantName = name
         /\ \A j \in 1..(k - 1) : orders[j].participantName # name
  ELSE 0

\* Mutation of IsHost: the host check lets every caller through
IsHostAnyone(session, u) == TRUE

IsHost(session, u) == session.host = u.id

\* JavaScript truthiness of a JSON request value
Truthy(x) ==
  CASE x.t = "undefined" -> FALSE
    [] x.t = "boolean" -> x.v
    [] x.t = "number" -> x.v # 0
    [] x.t = "string" -> x.v # ""

Bool(b) == [t |-> "boolean", v |-> b]

\* x || d for a string-valued request field
OrElse(x, d) == IF Truthy(x) THEN x.v ELSE d

----------------------------------------------------------------------------
(* POST /api/sessions *)

\* Mutation of ParseFloat: what is not a number is read as 0
ParseFloatOrZero(x) ==
  IF x.t = "number" THEN [nan |-> FALSE, v |-> x.v] ELSE [nan |-> FALSE, v |-> 0]

\* parseFloat of a request value: a number is itself; a missing field and a
\* string that does not begin with a number (the strings of the model) are NaN
ParseFloat(x) ==
  IF x.t = "number" THEN [nan |-> FALSE, v |-> x.v] ELSE [nan |-> TRUE, v |-> 0]

\* Mutation of DeadlineMinutes: a number that is sent is used as it is
DeadlineMinutesAsSent(x) ==
  IF x.t = "number" THEN x.v ELSE DefaultDeadlineMinutes

\* deadlineMinutes && parseInt(deadlineMinutes) > 0 ? parseInt(..) : 60
DeadlineMinutes(x) ==
  IF Truthy(x) /\ x.t = "number" /\ x.v > 0 THEN x.v ELSE DefaultDeadlineMinutes

NewSession(u, sid, payInfo, fee, minutes, restaurant) ==
  [sessionId |-> sid,
   host |-> u.id,
   hostName |-> u.name,
   hostPaymentInfo |-> Trim(payInfo),
   deliveryFee |-> ParseFloat(fee).v,
   deadline |-> now + DeadlineMinutes(minutes),
   restaurantId |-> OrElse(restaurant, NullStr),
   status |-> "active",
   orders |-> <<>>,
   createdAt |-> now]

\* sid is the id nanoid(8) returns: one that no stored session has
CreateSession(u, sid, payInfo, fee, minutes, restaurant) ==
  IF Trim(payInfo) = <<>>
  THEN Fail("createSession", 400, "Payment info is required")
  ELSE IF ParseFloat(fee).nan \/ ParseFloat(fee).v < 0
  THEN Fail("createSession", 400, "Delivery fee must be a non-negative number")
  ELSE /\ ~Exists(sid)
       /\ sessions' = [x \in DOMAIN sessions \cup {sid} |->
                         IF x = sid
                         THEN NewSession(u, sid, payInfo, fee, minutes, restaurant)
                         ELSE sessions[x]]
       /\ emitted' = NoEvent
       /\ resp' = Ok("createSession")
       /\ overwrote' = {}
       /\ UNCHANGED <<now, requests, version, swept, users, otpEnabled, evicted>>

----------------------------------------------------------------------------
(* POST /api/sessions/:id/orders *)

ItemError(item) ==
  IF Trim(item.name) = <<>> THEN "Each item must have a name"
  ELSE IF item.price <= 0 THEN "Each item must have a positive price"
  ELSE IF item.quantity < 1 THEN "Each item must have a quantity of at least 1"
  ELSE ""

\* Mutation of FirstItemError: only the first item is validated
FirstItemErrorHeadOnly(items) ==
  IF items = <<>> THEN "" ELSE ItemError(Head(items))

\* the error of the first item that fails validation, "" when all pass
RECURSIVE FirstItemError(_)
FirstItemError(items) ==
  IF items = <<>> THEN ""
  ELSE IF ItemError(Head(items)) # "" THEN ItemError(Head(items))
  ELSE FirstItemError(Tail(items))

\* items.map(i => ({name: i.name.trim(), price, quantity})), cast by the schema
SubmittedItems(items) ==
  [k \in 1..Len(items) |->
     CastItem([name |-> items[k].name, price |-> items[k].price,
               quantity |-> items[k].quantity, unavailable |-> FALSE])]

\* the order literal of the handler, cast by orderSchema on assignment: it
\* carries no payment, so the schema default fills one in
SubmittedOrder(u, items) ==
  [user |-> u.id,
   participantName |-> u.name,
   items |-> SubmittedItems(items),
   payment |-> DefaultPayment,
   paymentSent |-> FALSE,
   submittedAt |-> now]

\* Mutation of UpsertOrder: the order is always pushed
UpsertOrderAlwaysPush(orders, order) == Append(orders, order)

\* Mutation of UpsertOrder: a new order is put in front of the others
UpsertOrderPrepend(orders, order) ==
  LET k == FindIndex(orders, order.participantName)
  IN IF k > 0 THEN [orders EXCEPT ![k] = order] ELSE <<order>> \o orders

\* existingIndex >= 0 ? orders[existingIndex] = order : orders.push(order)
UpsertOrder(orders, order) ==
  LET k == FindIndex(orders, order.participantName)
  IN IF k > 0 THEN [orders EXCEPT ![k] = order] ELSE Append(orders, order)

\* Mutation of AdmissionError: the deadline is checked before the status
AdmissionErrorDeadlineFirst(session) ==
  IF session.deadline # NullTime /\ now > session.deadline
  THEN "Order deadline has passed"
  ELSE IF session.status # "active" THEN "Session is closed"
  ELSE ""

\* Mutation of AdmissionError: the deadline check is missing
AdmissionErrorStatusOnly(session) ==
  IF session.status # "active" THEN "Session is closed" ELSE ""

\* the status check, then the deadline check; "" when the session admits orders
AdmissionError(session) ==
  IF session.status # "active" THEN "Session is closed"
  ELSE IF session.deadline # NullTime /\ now > session.deadline
  THEN "Order deadline has passed"
  ELSE ""

SubmitOrder(sid, u, items) ==
  IF ~Exists(sid)
  THEN Fail("submitOrder", 404, "Session not found")
  ELSE IF AdmissionError(sessions[sid]) # ""
  THEN Fail("submitOrder", 400, AdmissionError(sessions[sid]))
  ELSE IF items = <<>>
  THEN Fail("submitOrder", 400, "At least one item is required")
  ELSE IF FirstItemError(items) # ""
  THEN Fail("submitOrder", 400, FirstItemError(items))
  ELSE LET s == [sessions[sid] EXCEPT
                   !.orders = UpsertOrder(@, SubmittedOrder(u, items))]
       IN Commit(sid, s, SessionUpdated(s), Ok("submitOrder"))

----------------------------------------------------------------------------
(* PATCH /api/sessions/:id/orders/:name/payment *)

\* the payment object the handler assigns: the legacy boolean form when
\* paymentSent is sent without a status, the status form otherwise
UpdatedPayment(u, body) ==
  IF body.paymentSent.t # "undefined" /\ ~Truthy(body.status)
  THEN [status |-> IF Truthy(body.paymentSent) THEN "paid" ELSE "pending",
        method |-> "transfer",
        paidBy |-> IF Truthy(body.paymentSent) THEN u.name ELSE NullStr,
        confirmedByHost |-> FALSE,
        paidAt |-> IF Truthy(body.paymentSent) THEN now ELSE NullTime]
  ELSE [status |-> OrElse(body.status, "paid"),
        method |-> OrElse(body.method, "transfer"),
        paidBy |-> OrElse(body.paidBy, u.name),
        confirmedByHost |-> FALSE,
        paidAt |-> now]

UpdatedPaymentSent(body) ==
  IF body.paymentSent.t # "undefined" /\ ~Truthy(body.status)
  THEN Truthy(body.paymentSent)
  ELSE ~(body.status.t = "string" /\ body.status.v = "pending")

UpdatePayment(sid, u, name, body) ==
  IF ~Exists(sid)
  THEN Fail("updatePayment", 404, "Session not found")
  ELSE IF FindIndex(sessions[sid].orders, name) = 0
  THEN Fail("updatePayment", 404, "Order not found")
  ELSE IF \/ UpdatedPayment(u, body).status \notin PaymentStatuses
          \/ UpdatedPayment(u, body).method \notin PaymentMethods
  THEN Fail("updatePayment", 500, "Failed to update payment")
  ELSE LET k == FindIndex(sessions[sid].orders, name)
           s == [sessions[sid] EXCEPT
                   !.orders[k].payment = UpdatedPayment(u, body),
                   !.orders[k].paymentSent = UpdatedPaymentSent(body)]
       IN Commit(sid, s, SessionUpdated(s), Ok("updatePayment"))

----------------------------------------------------------------------------
(* POST /api/sessions/:id/treat *)

\* Mutation of TargetNames: 'all' is taken as a participant's name
TargetNamesLiteral(session, names) ==
  IF names.t = "array"
  THEN {names.v[k] : k \in 1..Len(names.v)}
  ELSE IF names.t = "string" THEN {names.v}
  ELSE {}

\* names === 'all' ? every participant : Array.isArray(names) ? names : [names]
TargetNames(session, names) ==
  IF names.t = "string" /\ names.v = "all"
  THEN {session.orders[k].participantName : k \in 1..Len(session.orders)}
  ELSE IF names.t = "array"
  THEN {names.v[k] : k \in 1..Len(names.v)}
  ELSE IF names.t = "string" THEN {names.v}
  ELSE {}

TreatedPayment(session) ==
  [status |-> "treated", method |-> "treated", paidBy |-> session.hostName,
   confirmedByHost |-> TRUE, paidAt |-> now]

\* Mutation of TreatOrder: an order that is already paid is left as it is
TreatOrderUnlessPaid(session, order) ==
  IF order.payment.status = "paid" THEN order
  ELSE [order EXCEPT !.payment = TreatedPayment(session), !.paymentSent = TRUE]

TreatOrder(session, order) ==
  [order EXCEPT !.payment = TreatedPayment(session), !.paymentSent = TRUE]

TreatOrders(session, targets) ==
  [k \in 1..Len(session.orders) |->
     IF session.orders[k].participantName \in targets
     THEN TreatOrder(session, session.orders[k])
     ELSE session.orders[k]]

\* Mutation of TreatedCount: the names of the list are counted
TreatedCountOfNames(session, targets) == Cardinality(targets)

\* treated++ for each order whose name is among the targets
TreatedCount(session, targets) ==
  Cardinality({k \in 1..Len(session.orders) :
                 session.orders[k].participantName \in targets})

Treat(sid, u, names) ==
  IF ~Exists(sid)
  THEN Fail("treat", 404, "Session not found")
  ELSE IF ~IsHost(sessions[sid], u)
  THEN Fail("treat", 403, "Only the host can treat participants")
  ELSE LET targets == TargetNames(sessions[sid], names)
           s == [sessions[sid] EXCEPT !.orders = TreatOrders(sessions[sid], targets)]
       IN CommitTreat(sid, s, SessionUpdated(s),
                      [Ok("treat") EXCEPT !.treated = TreatedCount(sessions[sid], targets)],
                      {sessions[sid].orders[k].payment.status :
                         k \in {j \in 1..Len(sessions[sid].orders) :
                                  sessions[sid].orders[j].participantName \in targets}})

----------------------------------------------------------------------------
(* PATCH /api/sessions/:id/orders/:name/confirm *)

\* confirmedByHost = true; paymentSent = true.  orderSchema defaults payment
\* to {}, so a stored order always has one and `if (!order.payment)` is not taken
\* Mutation of ConfirmOrder: confirming also marks the order paid
ConfirmOrderMarksPaid(order) ==
  [order EXCEPT !.payment.confirmedByHost = TRUE, !.payment.status = "paid",
                !.paymentSent = TRUE]

\* order.payment.confirmedByHost = true; order.paymentSent = true (an order
\* read from the store always has a payment record, the schema's default)
ConfirmOrder(order) ==
  [order EXCEPT !.payment.confirmedByHost = TRUE, !.paymentSent = TRUE]

ConfirmPayment(sid, u, name) ==
  IF ~Exists(sid)
  THEN Fail("confirmPayment", 404, "Session not found")
  ELSE IF ~IsHost(sessions[sid], u)
  THEN Fail("confirmPayment", 403, "Only the host can confirm payments")
  ELSE IF FindIndex(sessions[sid].orders, name) = 0
  THEN Fail("confirmPayment", 404, "Order not found")
  ELSE LET k == FindIndex(sessions[sid].orders, name)
           s == [sessions[sid] EXCEPT !.orders[k] = ConfirmOrder(@)]
       IN Commit(sid, s, SessionUpdated(s), Ok("confirmPayment"))

----------------------------------------------------------------------------
(* DELETE /api/sessions/:id *)

\* Mutation of Closed: closing also ends the ordering window at once
ClosedEndsWindow(session) ==
  [session EXCEPT !.status = "closed", !.deadline = now]

\* Mutation of Closed: closing flips the status
ClosedToggle(session) ==
  [session EXCEPT !.status = IF @ = "closed" THEN "active" ELSE "closed"]

\* session.status = 'closed'
Closed(session) == [session EXCEPT !.status = "closed"]

CloseSession(sid, u) ==
  IF ~Exists(sid)
  THEN Fail("closeSession", 404, "Session not found")
  ELSE LET s == Closed(sessions[sid])
       IN Commit(sid, s, SessionClosed(s), Ok("closeSession"))

----------------------------------------------------------------------------
(* PATCH /api/sessions/:id/delivery-fee *)

ChangeDeliveryFee(sid, u, fee) ==
  IF ~Exists(sid)
  THEN Fail("changeDeliveryFee", 404, "Session not found")
  ELSE IF ParseFloat(fee).nan \/ ParseFloat(fee).v < 0
  THEN Fail("changeDeliveryFee", 400, "Delivery fee must be a non-negative number")
  ELSE LET s == [sessions[sid] EXCEPT !.deliveryFee = ParseFloat(fee).v]
       IN Commit(sid, s, FeeUpdated(s), Ok("changeDeliveryFee"))

----------------------------------------------------------------------------
(* DELETE /api/sessions/:id/orders/:name *)

\* Mutation of Splice: the order and all that follow it are removed
SpliceToEnd(orders, k) == [j \in 1..(k - 1) |-> orders[j]]

\* orders.splice(idx, 1)
Splice(orders, k) ==
  [j \in 1..(Len(orders) - 1) |-> IF j < k THEN orders[j] ELSE orders[j + 1]]

DeleteOrder(sid, u, name) ==
  IF ~Exists(sid)
  THEN Fail("deleteOrder", 404, "Session not found")
  ELSE IF FindIndex(sessions[sid].orders, name) = 0
  THEN Fail("deleteOrder", 404, "Order not found")
  ELSE LET k == FindIndex(sessions[sid].orders, name)
           s == [sessions[sid] EXCEPT !.orders = Splice(@, k)]
       IN Commit(sid, s, SessionUpdated(s), Ok("deleteOrder"))

----------------------------------------------------------------------------
(* PUT /api/sessions/:id/orders/:name *)

\* one element of items.map(...): name trimmed, price Number(p) || 0 (p itself
\* for the integer prices of the model), quantity parseInt(q) || 1, unavailable !!u
EditedItem(i) ==
  [name |-> Trim(i.name),
   price |-> i.price,
   quantity |-> IF i.quantity = 0 THEN 1 ELSE i.quantity,
   unavailable |-> i.unavailable]

\* items.map(...).filter(i => i.name)
RECURSIVE EditedItems(_)
EditedItems(items) ==
  IF items = <<>> THEN <<>>
  ELSE IF EditedItem(Head(items)).name = <<>> THEN EditedItems(Tail(items))
  ELSE <<EditedItem(Head(items))>> \o EditedItems(Tail(items))

\* Mutation of EditOrder: the edited order is stored as a new submission
EditOrderAsSubmission(sid, u, name, body) ==
  IF ~Exists(sid)
  THEN Fail("editOrder", 404, "Session not found")
  ELSE IF FindIndex(sessions[sid].orders, name) = 0
  THEN Fail("editOrder", 404, "Order not found")
  ELSE IF ~body.array
  THEN Fail("editOrder", 400, "items must be an array")
  ELSE LET k == FindIndex(sessions[sid].orders, name)
           s == [sessions[sid] EXCEPT !.orders[k].items = EditedItems(body.items),
                                      !.orders[k].payment = DefaultPayment,
                                      !.orders[k].paymentSent = FALSE]
       IN Commit(sid, s, SessionUpdated(s), Ok("editOrder"))

EditOrder(sid, u, name, body) ==
  IF ~Exists(sid)
  THEN Fail("editOrder", 404, "Session not found")
  ELSE IF FindIndex(sessions[sid].orders, name) = 0
  THEN Fail("editOrder", 404, "Order not found")
  ELSE IF ~body.array
  THEN Fail("editOrder", 400, "items must be an array")
  ELSE LET k == FindIndex(sessions[sid].orders, name)
           s == [sessions[sid] EXCEPT !.orders[k].items = EditedItems(body.items)]
       IN Commit(sid, s, SessionUpdated(s), Ok("editOrder"))

----------------------------------------------------------------------------
(* GET /api/sessions/feed/active and GET /api/sessions/history/mine *)

\* .limit(20) of the history query
HistoryLimit == 20

\* a query condition {f: v} on a stored document; a field the document does
\* not have matches no value
FieldIs(doc, f, v) == f \in DOMAIN doc /\ doc[f] = v

\* $or: [{host: req.user.id}, {'orders.userId': req.user.id}]
HostsOrOrdered(session, u) ==
  \/ session.host = u.id
  \/ \E k \in 1..Len(session.orders) : FieldIs(session.orders[k], "userId", u.id)

\* .sort({createdAt: -1}) of a set of session ids
RECURSIVE NewestFirst(_)
NewestFirst(ids) ==
  IF ids = {} THEN <<>>
  ELSE LET first == CHOOSE x \in ids :
                      \A y \in ids : sessions[y].createdAt <= sessions[x].createdAt
       IN <<first>> \o NewestFirst(ids \ {first})

\* the first n elements of a sequence
Limit(seq, n) == SubSeq(seq, 1, IF Len(seq) < n THEN Len(seq) ELSE n)

\* the sessionIds of the feed entries, in the order of the response
ActiveFeed(u) ==
  NewestFirst({sid \in DOMAIN sessions :
                 sessions[sid].status = "active" /\ HostsOrOrdered(sessions[sid], u)})

\* the sessionIds of the history entries, in the order of the response
History(u) ==
  Limit(NewestFirst({sid \in DOMAIN sessions : HostsOrOrdered(sessions[sid], u)}),
        HistoryLimit)

----------------------------------------------------------------------------
(* PATCH /api/sessions/:id/restaurant *)

\* the ids of the documents in the restaurants collection
Restaurants == {"r1"}

ChangeRestaurant(sid, u, restaurantId) ==
  IF ~Exists(sid)
  THEN Fail("changeRestaurant", 404, "Session not found")
  ELSE IF ~IsHost(sessions[sid], u)
  THEN Fail("changeRestaurant", 403, "Only the host can change the restaurant")
  ELSE IF Truthy(restaurantId) /\ restaurantId.v \notin Restaurants
  THEN Fail("changeRestaurant", 404, "Restaurant not found")
  ELSE LET s == [sessions[sid] EXCEPT !.restaurantId = OrElse(restaurantId, NullStr)]
       IN Commit(sid, s, RestaurantUpdated(s), Ok("changeRestaurant"))

----------------------------------------------------------------------------
(* POST /api/sessions/:id/orders, step by step *)

\* a request that has not arrived yet
Idle ==
  [pc |-> "idle", sid |-> NullStr, user |-> NullStr, index |-> 0,
   readVersion |-> 0, doc |-> <<>>, commitSeq |-> 0, stored |-> <<>>,
   publishSeq |-> 0]

\* the number of saves the store has applied, and of events sent
Commits == Cardinality({r \in 1..MaxRequests : requests[r].commitSeq > 0})
Publications == Cardinality({r \in 1..MaxRequests : requests[r].publishSeq > 0})

\* findOne, the checks, and the change of the request's own copy of the
\* document (lines 263-314); the handler then waits for session.save().
\* index is existingIndex (0 for -1): the save is a $set of orders.<index>
\* when it is positive and a $push when it is not
BeginSubmit(r, sid, u, items) ==
  /\ requests[r].pc = "idle"
  /\ \A q \in 1..(r - 1) : requests[q].pc # "idle"
  /\ IF ~Exists(sid)
     THEN Fail("submitOrder", 404, "Session not found")
     ELSE IF AdmissionError(sessions[sid]) # ""
     THEN Fail("submitOrder", 400, AdmissionError(sessions[sid]))
     ELSE IF items = <<>>
     THEN Fail("submitOrder", 400, "At least one item is required")
     ELSE IF FirstItemError(items) # ""
     THEN Fail("submitOrder", 400, FirstItemError(items))
     ELSE /\ requests' =
               [requests EXCEPT ![r] =
                  [pc |-> "save", sid |-> sid, user |-> u.name,
                   index |-> FindIndex(sessions[sid].orders, u.name),
                   readVersion |-> version[sid],
                   doc |-> [sessions[sid] EXCEPT
                              !.orders = UpsertOrder(@, SubmittedOrder(u, items))],
                   commitSeq |-> 0, stored |-> <<>>, publishSeq |-> 0]]
          /\ UNCHANGED <<sessions, now, resp, emitted, overwrote, version, swept, users, otpEnabled, evicted>>

\* session.save() reaches the store (line 316).  Mongoose sends the change,
\* not the document.  A $set of orders.<index> carries the __v that was read
\* in its filter and fails with a VersionError when the stored __v differs;
\* a $push carries no __v in its filter and increments the stored __v
\* Mutation of SaveSubmit: the save is given up when the deadline has passed
SaveSubmitChecksDeadline(r) ==
  LET q == requests[r]
      own == q.doc.orders[IF q.index > 0 THEN q.index ELSE Len(q.doc.orders)]
  IN /\ q.pc = "save"
     /\ IF now > q.doc.deadline \/ (q.index > 0 /\ version[q.sid] # q.readVersion)
        THEN /\ resp' = Reply("submitOrder", 500, "Failed to submit order")
             /\ emitted' = NoEvent
             /\ requests' = [requests EXCEPT ![r].pc = "done"]
             /\ UNCHANGED <<sessions, now, overwrote, version, swept, users, otpEnabled, evicted>>
        ELSE /\ sessions' =
                  [sessions EXCEPT ![q.sid].orders =
                     IF q.index > 0 THEN [@ EXCEPT ![q.index] = own]
                     ELSE Append(@, own)]
             /\ version' = IF q.index > 0 THEN version
                          ELSE [version EXCEPT ![q.sid] = @ + 1]
             /\ requests' =
                  [requests EXCEPT ![r].pc = "emit",
                                   ![r].commitSeq = Commits + 1,
                                   ![r].stored = sessions'[q.sid].orders]
             /\ UNCHANGED <<now, resp, emitted, overwrote, swept, users, otpEnabled, evicted>>

SaveSubmit(r) ==
  LET q == requests[r]
      own == q.doc.orders[IF q.index > 0 THEN q.index ELSE Len(q.doc.orders)]
  IN /\ q.pc = "save"
     /\ IF q.index > 0 /\ version[q.sid] # q.readVersion
        THEN /\ resp' = Reply("submitOrder", 500, "Failed to submit order")
             /\ emitted' = NoEvent
             /\ requests' = [requests EXCEPT ![r].pc = "done"]
             /\ UNCHANGED <<sessions, now, overwrote, version, swept, users, otpEnabled, evicted>>
        ELSE /\ sessions' =
                  [sessions EXCEPT ![q.sid].orders =
                     IF q.index > 0 THEN [@ EXCEPT ![q.index] = own]
                     ELSE Append(@, own)]
             /\ version' = IF q.index > 0 THEN version
                          ELSE [version EXCEPT ![q.sid] = @ + 1]
             /\ requests' =
                  [requests EXCEPT ![r].pc = "emit",
                                   ![r].commitSeq = Commits + 1,
                                   ![r].stored = sessions'[q.sid].orders]
             /\ UNCHANGED <<now, resp, emitted, overwrote, swept, users, otpEnabled, evicted>>

\* the handler resumes after the save: it emits its own copy of the document
\* and answers (lines 319-324)
PublishSubmit(r) ==
  /\ requests[r].pc = "emit"
  /\ emitted' = SessionUpdated(requests[r].doc)
  /\ resp' = Ok("submitOrder")
  /\ requests' = [requests EXCEPT ![r].pc = "done",
                                  ![r].publishSeq = Publications + 1]
  /\ UNCHANGED <<sessions, now, overwrote, version, swept, users, otpEnabled, evicted>>

\* the emit throws: the handler's catch answers 500 (lines 325-328)
PublishSubmitThrows(r) ==
  /\ requests[r].pc = "emit"
  /\ emitted' = NoEvent
  /\ resp' = Reply("submitOrder", 500, "Failed to submit order")
  /\ requests' = [requests EXCEPT ![r].pc = "done"]
  /\ UNCHANGED <<sessions, now, overwrote, version, swept, users, otpEnabled, evicted>>

----------------------------------------------------------------------------
(* Time *)

Tick ==
  /\ now < MaxTime
  /\ now' = now + 1
  /\ UNCHANGED <<sessions, resp, emitted, overwrote, requests, version, swept, users, otpEnabled, evicted>>

\* a day goes by with no request
Elapse ==
  /\ now + RetentionMinutes \div 2 <= MaxDays * (RetentionMinutes \div 2) + MaxTime
  /\ now' = now + RetentionMinutes \div 2
  /\ UNCHANGED <<sessions, resp, emitted, overwrote, requests, version, swept, users, otpEnabled, evicted>>

----------------------------------------------------------------------------
(* Retention: the hourly cleanup and the TTL index on createdAt *)

\* Mutation of Swept: sessions that are still active are kept
SweptClosedOnly(store, t) ==
  [sid \in {x \in DOMAIN store :
              ~(t - store[x].createdAt > RetentionMinutes /\ store[x].status = "closed")}
     |-> store[sid]]

\* the store without the sessions whose age at time t is above 48 hours
Swept(store, t) ==
  [sid \in {x \in DOMAIN store : ~(t - store[x].createdAt > RetentionMinutes)}
     |-> store[sid]]

RetentionSweep ==
  /\ sessions' = Swept(sessions, now)
  /\ swept' = DOMAIN sessions \ DOMAIN sessions'
  /\ UNCHANGED <<now, resp, emitted, overwrote, requests, version, users,
               otpEnabled, evicted>>

----------------------------------------------------------------------------
(* Requests of the model *)

PaymentBody(st, m, p, sent) ==
  [status |-> st, method |-> m, paidBy |-> p, paymentSent |-> sent]

PaidBody == PaymentBody(Str("paid"), Undefined, Undefined, Undefined)
TreatedBody == PaymentBody(Str("treated"), Undefined, Undefined, Undefined)

Arr(seq) == [t |-> "array", v |-> seq]
TreatAll == Str("all")

GoodPayInfo == <<"p", " ">>

----------------------------------------------------------------------------
(* Accounts: signup, verify-otp, login, resend-otp, refresh, logout.      *)
(* A user's _id is written as the user's address; the addresses of the    *)
(* model are lower case and carry no spaces.                              *)

\* user.refreshTokens.slice(-5) once the list is longer than 5
MaxRefreshTokens == 5

\* OTP_EXPIRY_MINUTES
OtpExpiryMinutes == 10

\* REFRESH_TOKEN_EXPIRY '7d', in minutes
RefreshExpiryMinutes == 10080

\* jwt.sign({id}, JWT_REFRESH_SECRET, {expiresIn}): the token is a function
\* of the user and of the time of signing, so two tokens signed for one
\* user at one reading of the clock are the same string
generateRefreshToken(id, t) ==
  [sub |-> id, iat |-> t, exp |-> t + RefreshExpiryMinutes, signed |-> TRUE]

\* a token that was not signed with JWT_REFRESH_SECRET
Forged(id) == [sub |-> id, iat |-> 0, exp |-> RefreshExpiryMinutes, signed |-> FALSE]

\* the request carries no refreshToken
NoToken == [sub |-> "", iat |-> 0, exp |-> 0, signed |-> FALSE]

\* user.otp is null
NoOtp == <<>>

\* jwt.verify(token, JWT_REFRESH_SECRET) does not throw
Verifies(token) == token.signed /\ now < token.exp

\* Mutation of LastTokens: the list is cut at its head
FirstTokens(list) ==
  IF Len(list) > MaxRefreshTokens THEN SubSeq(list, 1, MaxRefreshTokens) ELSE list

\* list.length > 5 ? list.slice(-5) : list
LastTokens(list) ==
  IF Len(list) > MaxRefreshTokens
  THEN SubSeq(list, Len(list) - MaxRefreshTokens + 1, Len(list))
  ELSE list

\* issueTokens: the user with the new refresh token pushed and the cap applied
Issued(user) ==
  [user EXCEPT !.refreshTokens =
     LastTokens(Append(@, [token |-> generateRefreshToken(user.email, now),
                           createdAt |-> now]))]

\* the tokens of the entries of a list
TokensOf(list) == {list[k].token : k \in 1..Len(list)}

\* userSchema.pre('save') hashes a changed password; comparePassword
Hash(password) == <<"bcrypt", password>>

ComparePassword(candidate, hashed) == hashed = Hash(candidate)

Registered(email) == email \in DOMAIN users

\* user.save(), then the response
SaveUser(user, reply, dropped) ==
  /\ users' = [x \in DOMAIN users \cup {user.email} |->
                 IF x = user.email THEN user ELSE users[x]]
  /\ resp' = reply
  /\ evicted' = dropped
  /\ UNCHANGED <<sessions, now, emitted, overwrote, requests, version, swept,
                 otpEnabled>>

\* a response of a route that stores nothing
Answer(reply) ==
  /\ resp' = reply
  /\ UNCHANGED <<sessions, now, emitted, overwrote, requests, version, swept,
                 users, otpEnabled, evicted>>

\* the user saved after issueTokens
SaveIssued(user, reply) ==
  SaveUser(Issued(user), reply,
           TokensOf(user.refreshTokens) \ TokensOf(Issued(user).refreshTokens))

\* POST /signup; code is the value generateOTP() returns.  paymentInfo is
\* stored trimmed and read by no route of the model; it is left out
Signup(name, email, password, code) ==
  IF name = "" THEN Answer(Reply("signup", 400, "Name is required"))
  ELSE IF email = "" THEN Answer(Reply("signup", 400, "Email is required"))
  ELSE IF Len(password) < 6
  THEN Answer(Reply("signup", 400, "Password must be at least 6 characters"))
  ELSE IF Registered(email) /\ users[email].isVerified
  THEN Answer(Reply("signup", 409, "Email already registered"))
  ELSE LET user ==
             IF Registered(email)
             THEN [users[email] EXCEPT
                     !.name = name, !.password = Hash(password), !.otp = code,
                     !.otpExpiresAt = now + OtpExpiryMinutes,
                     !.isVerified = IF otpEnabled THEN @ ELSE TRUE]
             ELSE [name |-> name, email |-> email, password |-> Hash(password),
                   otp |-> code, otpExpiresAt |-> now + OtpExpiryMinutes,
                   isVerified |-> ~otpEnabled, refreshTokens |-> <<>>]
       IN IF otpEnabled
          THEN SaveUser(user, Ok("signup"), {})
          ELSE SaveIssued(user, Reply("signup", 201, ""))

\* Mutation of OtpError: the expiry of the stored code is not read
OtpErrorNoExpiry(user, otp) ==
  IF user.otp = NoOtp \/ user.otp # Trim(otp)
  THEN "Invalid verification code"
  ELSE ""

\* the two checks of verify-otp on the found user
OtpError(user, otp) ==
  IF user.otp = NoOtp \/ user.otp # Trim(otp)
  THEN "Invalid verification code"
  ELSE IF user.otpExpiresAt # NullTime /\ now > user.otpExpiresAt
  THEN "Verification code has expired. Please request a new one."
  ELSE ""

\* POST /verify-otp
VerifyOtp(email, otp) ==
  IF email = "" THEN Answer(Reply("verifyOtp", 400, "Email is required"))
  ELSE IF Trim(otp) = <<>>
  THEN Answer(Reply("verifyOtp", 400, "Verification code is required"))
  ELSE IF ~Registered(email) THEN Answer(Reply("verifyOtp", 404, "User not found"))
  ELSE IF OtpError(users[email], otp) # ""
  THEN Answer(Reply("verifyOtp", 401, OtpError(users[email], otp)))
  ELSE SaveIssued([users[email] EXCEPT !.isVerified = TRUE, !.otp = NoOtp,
                                       !.otpExpiresAt = NullTime],
                  Ok("verifyOtp"))

\* the user with a new one-time code
WithOtp(user, code) ==
  [user EXCEPT !.otp = code, !.otpExpiresAt = now + OtpExpiryMinutes]

\* POST /login; code is the value generateOTP() returns
Login(email, password, code) ==
  IF email = "" THEN Answer(Reply("login", 400, "Email is required"))
  ELSE IF password = <<>> THEN Answer(Reply("login", 400, "Password is required"))
  ELSE IF ~Registered(email)
  THEN Answer(Reply("login", 401, "Invalid email or password"))
  ELSE IF ~users[email].isVerified /\ otpEnabled
  THEN SaveUser(WithOtp(users[email], code), Ok("login"), evicted)
  ELSE IF ~ComparePassword(password, users[email].password)
  THEN Answer(Reply("login", 401, "Invalid email or password"))
  ELSE IF otpEnabled
  THEN SaveUser(WithOtp(users[email], code), Ok("login"), evicted)
  ELSE SaveIssued(users[email], Ok("login"))

\* POST /resend-otp
ResendOtp(email, code) ==
  IF email = "" THEN Answer(Reply("resendOtp", 400, "Email is required"))
  ELSE IF ~Registered(email) THEN Answer(Reply("resendOtp", 404, "User not found"))
  ELSE SaveUser(WithOtp(users[email], code), Ok("resendOtp"), evicted)

\* POST /refresh
Refresh(token) ==
  IF token = NoToken
  THEN Answer(Reply("refresh", 400, "Refresh token is required"))
  ELSE IF ~Verifies(token)
  THEN Answer(Reply("refresh", 401, "Invalid or expired refresh token"))
  ELSE IF ~Registered(token.sub) THEN Answer(Reply("refresh", 401, "User not found"))
  ELSE IF token \notin TokensOf(users[token.sub].refreshTokens)
  THEN Answer(Reply("refresh", 401, "Refresh token has been revoked"))
  ELSE Answer(Ok("refresh"))

\* refreshTokens.filter(t => t.token !== refreshToken)
WithoutToken(list, token) == SelectSeq(list, LAMBDA e : e.token # token)

\* POST /logout of the signed-in user id
Logout(id, token) ==
  IF Registered(id) /\ token # NoToken
  THEN SaveUser([users[id] EXCEPT !.refreshTokens = WithoutToken(@, token)],
                Ok("logout"), evicted)
  ELSE Answer(Ok("logout"))

----------------------------------------------------------------------------
(* Specification Spec: the order ledger and the settlement state of one   *)
(* session with two participants (the host Ann and the guest Bob), all    *)
(* requests arriving at one reading of the clock.                         *)

\* the server starts with empty collections; enabled is OTP_ENABLED of its
\* environment
Started(enabled) ==
  /\ sessions = [x \in {} |-> 0]
  /\ now = 0
  /\ resp = NoResp
  /\ emitted = NoEvent
  /\ overwrote = {}
  /\ requests = [r \in 1..MaxRequests |-> Idle]
  /\ version = [sid \in SessionIds \cup SweepIds |-> 0]
  /\ swept = {}
  /\ users = [x \in {} |-> 0]
  /\ otpEnabled = enabled
  /\ evicted = {}

Init == Started(FALSE)

LedgerItems == {<<>>, TeaOrder, CoffeeOrder}
LedgerNames == {"Ann", "Bob"}
LedgerBodies == {PaidBody, TreatedBody}
LedgerTreats == {TreatAll, Arr(<<"Bob", "Zed">>)}
LedgerEdits == {[array |-> TRUE, items |-> TeaUnavailable]}

Next ==
  \/ \E u \in Creators, sid \in SessionIds :
       CreateSession(u, sid, GoodPayInfo, Num(30), Num(1), Undefined)
  \/ \E sid \in SessionIds, u \in Users, it \in LedgerItems : SubmitOrder(sid, u, it)
  \/ \E sid \in SessionIds, u \in Users, n \in LedgerNames, b \in LedgerBodies :
       UpdatePayment(sid, u, n, b)
  \/ \E sid \in SessionIds, u \in Users, ns \in LedgerTreats : Treat(sid, u, ns)
  \/ \E sid \in SessionIds, u \in Users, n \in LedgerNames : ConfirmPayment(sid, u, n)
  \/ \E sid \in SessionIds, u \in Users, n \in LedgerNames : DeleteOrder(sid, u, n)
  \/ \E sid \in SessionIds, u \in Users, n \in LedgerNames, b \in LedgerEdits :
       EditOrder(sid, u, n, b)

Spec == Init /\ [][Next]_vars

----------------------------------------------------------------------------
(* Specification SpecClock: the life of one session under a running       *)
(* clock, with the host Ann and one ordering guest, Bob.                  *)

ClockItems == {<<>>, TeaOrder, CoffeeOrder, FreeOrder}
ClockFees == {Num(-1), Num(0)}
ClockEdits ==
  { [array |-> TRUE, items |-> TeaUnavailable],
    [array |-> TRUE, items |-> BlankOrder],
    [array |-> FALSE, items |-> <<>>] }

NextClock ==
  \/ Tick
  \/ \E u \in Creators, sid \in SessionIds :
       CreateSession(u, sid, GoodPayInfo, Num(30), Num(1), Undefined)
  \/ \E sid \in SessionIds, it \in ClockItems : SubmitOrder(sid, Bob, it)
  \/ \E sid \in SessionIds : UpdatePayment(sid, Bob, "Bob", PaidBody)
  \/ \E sid \in SessionIds : Treat(sid, Ann, TreatAll)
  \/ \E sid \in SessionIds : ConfirmPayment(sid, Ann, "Bob")
  \/ \E sid \in SessionIds, u \in Users : CloseSession(sid, u)
  \/ \E sid \in SessionIds, f \in ClockFees : ChangeDeliveryFee(sid, Ann, f)
  \/ \E sid \in SessionIds : DeleteOrder(sid, Ann, "Bob")
  \/ \E sid \in SessionIds, b \in ClockEdits : EditOrder(sid, Ann, "Bob", b)

SpecClock == Init /\ [][NextClock]_vars

----------------------------------------------------------------------------
(* Specification SpecPayment: the payment of one order (Bob's) under a    *)
(* running clock, with every form of the updatePayment body.              *)

PendingBody == PaymentBody(Str("pending"), Undefined, Undefined, Undefined)
CashBody == PaymentBody(Str("cash"), Str("cash"), Str("Cy"), Undefined)
LegacySent == PaymentBody(Undefined, Undefined, Undefined, Bool(TRUE))
LegacyUnsent == PaymentBody(Undefined, Undefined, Undefined, Bool(FALSE))
BogusBody == PaymentBody(Str("bogus"), Undefined, Undefined, Undefined)
EmptyBody == PaymentBody(Undefined, Undefined, Undefined, Undefined)

PaymentBodies ==
  {PendingBody, PaidBody, CashBody, LegacySent, LegacyUnsent, BogusBody, EmptyBody}
PaymentNames == {"Bob", "Zed"}

NextPayment ==
  \/ Tick
  \/ \E u \in Creators, sid \in SessionIds :
       CreateSession(u, sid, GoodPayInfo, Num(30), Undefined, Undefined)
  \/ \E sid \in SessionIds : SubmitOrder(sid, Bob, TeaOrder)
  \/ \E sid \in SessionIds, u \in Users, n \in PaymentNames, b \in PaymentBodies :
       UpdatePayment(sid, u, n, b)

SpecPayment == Init /\ [][NextPayment]_vars

----------------------------------------------------------------------------
(* Specification SpecCosts: the cost allocation of one session with three *)
(* participants whose orders are submitted, deleted and have items        *)
(* switched between available and unavailable, under a changing fee.      *)

Diners == {Ann, Bob, Cy}
CostNames == {"Ann", "Bob", "Cy"}
CostFees == {Num(30), Num(60)}

\* what each diner orders
Dish(u) ==
  IF u = Ann THEN TeaOrder ELSE IF u = Bob THEN CoffeeOrder ELSE TeaCoffee

\* the editOrder body that sends an order's items back with the unavailable
\* flag of item k switched
ToggleBody(items, k) ==
  [array |-> TRUE, items |-> [items EXCEPT ![k].unavailable = ~@]]

NextCosts ==
  \/ \E u \in Creators, sid \in SessionIds :
       CreateSession(u, sid, GoodPayInfo, Num(30), Num(1), Undefined)
  \/ \E sid \in SessionIds, u \in Diners : SubmitOrder(sid, u, Dish(u))
  \/ \E sid \in SessionIds, f \in CostFees : ChangeDeliveryFee(sid, Ann, f)
  \/ \E sid \in SessionIds, n \in CostNames : DeleteOrder(sid, Ann, n)
  \/ \E sid \in SessionIds, n \in CostNames :
       /\ Exists(sid)
       /\ FindIndex(sessions[sid].orders, n) > 0
       /\ \E k \in 1..Len(sessions[sid].orders[FindIndex(sessions[sid].orders, n)].items) :
            EditOrder(sid, Ann, n,
                      ToggleBody(sessions[sid].orders[FindIndex(sessions[sid].orders, n)].items, k))

SpecCosts == Init /\ [][NextCosts]_vars

----------------------------------------------------------------------------
(* Specification SpecRace: submitOrder requests of Ann and Bob (each may  *)
(* send from two devices) that overlap on one session.                    *)

\* what request r orders
RaceItems(r) == IF r % 2 = 1 THEN TeaOrder ELSE CoffeeOrder

NextRace ==
  \/ \E u \in Creators, sid \in SessionIds :
       CreateSession(u, sid, GoodPayInfo, Num(30), Num(1), Undefined)
  \/ \E r \in 1..MaxRequests, sid \in SessionIds, u \in Users :
       BeginSubmit(r, sid, u, RaceItems(r))
  \/ \E r \in 1..MaxRequests : SaveSubmit(r)
  \/ \E r \in 1..MaxRequests : PublishSubmit(r)
  \/ \E r \in 1..MaxRequests : PublishSubmitThrows(r)

SpecRace == Init /\ [][NextRace]_vars

----------------------------------------------------------------------------
(* Specification SpecErrors: the requests that the handlers refuse, sent  *)
(* by the host Ann and the guest Bob to a session in which Bob orders.    *)

ErrorItems == {<<>>, TeaOrder, TeaThenBlank, TeaThenNone, FreeOrder}
ErrorNames == {"Bob", "Zed"}
ErrorBodies == {PaidBody, BogusBody}
ErrorEdits == {[array |-> TRUE, items |-> TeaUnavailable],
               [array |-> FALSE, items |-> <<>>]}
ErrorFees == {Num(-1), Str("x"), Num(30)}
ErrorRestaurants == {Str("r1"), Str("r9")}

NextErrors ==
  \/ Tick
  \/ \E u \in Creators, sid \in SessionIds :
       CreateSession(u, sid, GoodPayInfo, Num(30), Num(1), Undefined)
  \/ \E sid \in SessionIds, it \in ErrorItems : SubmitOrder(sid, Bob, it)
  \/ \E sid \in SessionIds, n \in ErrorNames, b \in ErrorBodies :
       UpdatePayment(sid, Bob, n, b)
  \/ \E sid \in SessionIds, u \in Users : Treat(sid, u, TreatAll)
  \/ \E sid \in SessionIds, u \in Users, n \in ErrorNames : ConfirmPayment(sid, u, n)
  \/ \E sid \in SessionIds : CloseSession(sid, Ann)
  \/ \E sid \in SessionIds, f \in ErrorFees : ChangeDeliveryFee(sid, Ann, f)
  \/ \E sid \in SessionIds, n \in ErrorNames : DeleteOrder(sid, Ann, n)
  \/ \E sid \in SessionIds, n \in ErrorNames, b \in ErrorEdits :
       EditOrder(sid, Ann, n, b)
  \/ \E sid \in SessionIds, u \in Users, x \in ErrorRestaurants :
       ChangeRestaurant(sid, u, x)

SpecErrors == Init /\ [][NextErrors]_vars

----------------------------------------------------------------------------
(* Specification SpecCreate: createSession with every kind of body, under *)
(* a running clock.                                                       *)

CreatePayInfos == {GoodPayInfo, Blank, <<>>}
CreateFees == {Num(-1), Str("x"), Undefined, Num(0), Num(30)}
CreateMinutes == {Undefined, Num(0), Num(-5), Num(1)}

NextCreate ==
  \/ Tick
  \/ \E u \in Users, sid \in SessionIds, p \in CreatePayInfos, f \in CreateFees,
        m \in CreateMinutes :
       CreateSession(u, sid, p, f, m, Undefined)

SpecCreate == Init /\ [][NextCreate]_vars

----------------------------------------------------------------------------
(* Specification SpecSweep: two sessions that are created, ordered in and *)
(* closed while days go by and the retention sweep runs.                  *)

NextSweep ==
  \/ Tick
  \/ Elapse
  \/ RetentionSweep
  \/ \E sid \in SweepIds :
       CreateSession(Ann, sid, GoodPayInfo, Num(30), Undefined, Undefined)
  \/ \E sid \in SweepIds : SubmitOrder(sid, Bob, TeaOrder)
  \/ \E sid \in SweepIds : CloseSession(sid, Ann)

SpecSweep == Init /\ [][NextSweep]_vars

----------------------------------------------------------------------------
(* Specification SpecHost: the fields of a session and of Bob's order     *)
(* that the host corrects (fee, restaurant, items), with the requests     *)
(* sent by the host Ann and by the guest Bob.                             *)

HostFees == {Num(-1), Str("x"), Num(0), Num(30)}
HostItems == {TeaOrder, FreeOrder, TeaThenNone}
HostEdits ==
  { [array |-> TRUE, items |-> FreeOrder],
    [array |-> TRUE, items |-> NegativeTea],
    [array |-> TRUE, items |-> TeaThenNone],
    [array |-> TRUE, items |-> BlankOrder],
    [array |-> TRUE, items |-> TeaUnavailable] }
HostRestaurants == {Str("r1"), Undefined}

NextHost ==
  \/ \E sid \in SessionIds, f \in HostFees :
       CreateSession(Ann, sid, GoodPayInfo, f, Num(1), Undefined)
  \/ \E sid \in SessionIds, it \in HostItems : SubmitOrder(sid, Bob, it)
  \/ \E sid \in SessionIds, u \in Users, b \in HostEdits : EditOrder(sid, u, "Bob", b)
  \/ \E sid \in SessionIds, u \in Users, f \in HostFees : ChangeDeliveryFee(sid, u, f)
  \/ \E sid \in SessionIds, u \in Users, x \in HostRestaurants :
       ChangeRestaurant(sid, u, x)

SpecHost == Init /\ [][NextHost]_vars

----------------------------------------------------------------------------
(* Specification SpecTwo: two sessions side by side; Bob's submitOrder    *)
(* requests, split at their awaits, and the host's deleteOrder reach      *)
(* either session.  Every pending save and every handler waiting to       *)
(* resume is run by the event loop in the end.                            *)

\* the requests that are sent in this specification
TwoRequests == {1, 2}

NextTwo ==
  \/ \E sid \in SweepIds :
       CreateSession(Ann, sid, GoodPayInfo, Num(30), Num(1), Undefined)
  \/ \E r \in TwoRequests, sid \in SweepIds : BeginSubmit(r, sid, Bob, RaceItems(r))
  \/ \E r \in TwoRequests : SaveSubmit(r)
  \/ \E r \in TwoRequests : PublishSubmit(r)
  \/ \E sid \in SweepIds : DeleteOrder(sid, Ann, "Bob")

SpecTwo ==
  /\ Init
  /\ [][NextTwo]_vars
  /\ \A r \in TwoRequests : WF_vars(SaveSubmit(r)) /\ WF_vars(PublishSubmit(r))

----------------------------------------------------------------------------
(* Specification SpecFlight: Bob's submitOrder requests, split at their   *)
(* awaits, while the clock runs past the deadline and the host closes the *)
(* session.                                                               *)

NextFlight ==
  \/ Tick
  \/ \E sid \in SessionIds :
       CreateSession(Ann, sid, GoodPayInfo, Num(30), Num(1), Undefined)
  \/ \E r \in TwoRequests, sid \in SessionIds : BeginSubmit(r, sid, Bob, RaceItems(r))
  \/ \E r \in TwoRequests : SaveSubmit(r)
  \/ \E r \in TwoRequests : PublishSubmit(r)
  \/ \E sid \in SessionIds : CloseSession(sid, Ann)

SpecFlight == Init /\ [][NextFlight]_vars

----------------------------------------------------------------------------
(* Specification SpecTokens: the refresh tokens of one user of a server   *)
(* that runs without OTP, over four days.                                 *)

AnnMail == "ann@x"
ZedMail == "zed@x"
GoodPassword == <<"s", "e", "c", "r", "e", "t">>
WrongPassword == <<"l", "e", "t", "m", "e", "i", "n">>
ShortPassword == <<"a", "b", "c">>
Code1 == <<"1", "1", "1">>
Code2 == <<"2", "2", "2">>
PaddedCode1 == <<" ", "1", "1", "1", " ">>

\* the refresh tokens a client can send: one signed on any day of the model,
\* a forged one, none
TokenInputs ==
  {generateRefreshToken(AnnMail, d * (RetentionMinutes \div 2)) : d \in 0..MaxDays}
    \cup {Forged(AnnMail), NoToken}

NextTokens ==
  \/ Elapse
  \/ Signup("Ann", AnnMail, GoodPassword, Code1)
  \/ \E p \in {GoodPassword, WrongPassword} : Login(AnnMail, p, Code1)
  \/ VerifyOtp(AnnMail, Code1)
  \/ \E t \in TokenInputs : Refresh(t)
  \/ \E t \in TokenInputs : Logout(AnnMail, t)

SpecTokens == Init /\ [][NextTokens]_vars

----------------------------------------------------------------------------
(* Specification SpecOtp: the one-time code of one user of a server that  *)
(* runs with OTP, over four days.                                         *)

OtpCodes == {Code1, Code2}
OtpInputs == {Code1, Code2, PaddedCode1, Blank}

InitOtp == Started(TRUE)

NextOtp ==
  \/ Elapse
  \/ \E p \in {GoodPassword, ShortPassword}, c \in OtpCodes :
       Signup("Ann", AnnMail, p, c)
  \/ \E p \in {GoodPassword, WrongPassword}, c \in OtpCodes : Login(AnnMail, p, c)
  \/ \E c \in OtpCodes : ResendOtp(AnnMail, c)
  \/ \E e \in {AnnMail, ZedMail}, o \in OtpInputs : VerifyOtp(e, o)

SpecOtp == InitOtp /\ [][NextOtp]_vars

----------------------------------------------------------------------------
(* Specification SpecSettle: the host Ann and the guest Bob order, the    *)
(* host treats and deletes by name.                                       *)

NextSettle ==
  \/ \E sid \in SessionIds :
       CreateSession(Ann, sid, GoodPayInfo, Num(30), Num(1), Undefined)
  \/ \E sid \in SessionIds, u \in Users, it \in LedgerItems : SubmitOrder(sid, u, it)
  \/ \E sid \in SessionIds, u \in Users, ns \in LedgerTreats : Treat(sid, u, ns)
  \/ \E sid \in SessionIds, u \in Users, n \in LedgerNames : DeleteOrder(sid, u, n)

SpecSettle == Init /\ [][NextSettle]_vars

----------------------------------------------------------------------------
(* Properties *)

Orders(sid) == sessions[sid].orders

HasOrder(sid, name) == Exists(sid) /\ FindIndex(sessions[sid].orders, name) > 0

OrderOf(sid, name) == sessions[sid].orders[FindIndex(sessions[sid].orders, name)]

\* a submitOrder by u that succeeded for a name that already had an order
Resubmits(sid, u, it) ==
  /\ HasOrder(sid, u.name)
  /\ SubmitOrder(sid, u, it)
  /\ resp'.code = 200

\* C1: a successful submitOrder for a participantName that already has an
\* order leaves that order's payment (status, method, paidBy, confirmedByHost,
\* paidAt) exactly as it was: resubmitting never resets an advanced payment.
C1_ResubmitKeepsPayment ==
  [][\A sid \in SessionIds, u \in Users, it \in LedgerItems :
       Resubmits(sid, u, it)
       => sessions'[sid].orders[FindIndex(Orders(sid), u.name)].payment
            = OrderOf(sid, u.name).payment]_vars

NoDuplicateNames ==
  \A sid \in DOMAIN sessions :
    \A i, j \in 1..Len(Orders(sid)) :
      i # j => Orders(sid)[i].participantName # Orders(sid)[j].participantName

ReplacesInPlace ==
  \A sid \in SessionIds, u \in Users, it \in LedgerItems :
    Resubmits(sid, u, it)
    => LET k == FindIndex(Orders(sid), u.name)
           after == sessions'[sid].orders
       IN /\ Len(after) = Len(Orders(sid))
          /\ after[k].participantName = u.name
          /\ after[k].items = SubmittedItems(it)
          /\ \A j \in 1..Len(after) : j # k => after[j] = Orders(sid)[j]

\* C2: after any sequence of submitOrder, editOrder, deleteOrder,
\* updatePayment, confirmPayment and treat calls run one at a time, no two
\* orders of a session have the same participantName; a second successful
\* submitOrder by the same name replaces the entry at its position, leaves
\* every other entry alone and keeps the number of orders.
C2_OneOrderPerName == []NoDuplicateNames /\ [][ReplacesInPlace]_vars

\* C2 witness: a submitOrder has just succeeded while the second of two
\* orders is paid, so it was a replacement of the first entry (a new or
\* replaced second entry would be pending)
C2_ReplacedFirstOfTwo ==
  \E sid \in DOMAIN sessions :
    /\ resp = Ok("submitOrder")
    /\ Len(Orders(sid)) = 2
    /\ Orders(sid)[2].payment.status = "paid"

\* the response, store and socket room after a request that was refused
Refused(op, code, error) ==
  /\ resp' = Reply(op, code, error)
  /\ sessions' = sessions
  /\ emitted' = NoEvent

\* C3: once a session is closed, every submitOrder on it fails with
\* 'Session is closed' and changes nothing, whether its deadline is still
\* ahead or already past and whatever items are sent.
C3_ClosedRejectsSubmit ==
  [][\A sid \in SessionIds, u \in Users, it \in ClockItems :
       (Exists(sid) /\ sessions[sid].status = "closed" /\ SubmitOrder(sid, u, it))
       => Refused("submitOrder", 400, "Session is closed")]_vars

\* C3 witness: a closed session with an order, its deadline already past,
\* has just refused a submitOrder as closed
C3_ClosedPastDeadlineRefused ==
  \E sid \in DOMAIN sessions :
    /\ sessions[sid].status = "closed"
    /\ now > sessions[sid].deadline
    /\ Len(Orders(sid)) > 0
    /\ resp = Reply("submitOrder", 400, "Session is closed")

\* what C4 calls the orders of a session: their number, names and items
Ledger(orders) ==
  [k \in 1..Len(orders) |->
     [participantName |-> orders[k].participantName, items |-> orders[k].items]]

\* C4: while a session is closed no editOrder, deleteOrder or
\* changeDeliveryFee is accepted: its orders (number, names, items) and its
\* deliveryFee are the same in every later state.
C4_ClosedIsFrozen ==
  [][\A sid \in DOMAIN sessions :
       sessions[sid].status = "closed"
       => /\ Ledger(sessions'[sid].orders) = Ledger(Orders(sid))
          /\ sessions'[sid].deliveryFee = sessions[sid].deliveryFee]_vars

\* C5: a session is created active, closeSession sets it to closed, and a
\* closed session stays closed under every operation.
C5_StatusOneWay ==
  [][\A sid \in SessionIds :
       /\ (~Exists(sid) /\ sid \in DOMAIN sessions')
          => sessions'[sid].status = "active"
       /\ \A u \in Users :
            (Exists(sid) /\ CloseSession(sid, u))
            => resp' = Ok("closeSession") /\ sessions'[sid].status = "closed"
       /\ (Exists(sid) /\ sessions[sid].status = "closed")
          => sid \in DOMAIN sessions' /\ sessions'[sid].status = "closed"]_vars

\* C5 witness: a closed session has just accepted a fee change and is still
\* closed
C5_ClosedAfterLaterRequest ==
  \E sid \in DOMAIN sessions :
    /\ sessions[sid].status = "closed"
    /\ resp = Ok("changeDeliveryFee")

PastDeadline(sid) ==
  /\ Exists(sid)
  /\ sessions[sid].status = "active"
  /\ sessions[sid].deadline # NullTime
  /\ now > sessions[sid].deadline

ValidFee(f) == ~ParseFloat(f).nan /\ ParseFloat(f).v >= 0

\* C6: on an active session whose deadline has passed, submitOrder (new or
\* replacement) is refused with 'Order deadline has passed' and changes
\* nothing, while editOrder on an existing order, changeDeliveryFee,
\* updatePayment, confirmPayment, treat and closeSession still succeed and
\* take effect.
C6_DeadlineGatesOnlySubmit ==
  [][\A sid \in SessionIds :
       PastDeadline(sid)
       => /\ \A u \in Users, it \in ClockItems :
               SubmitOrder(sid, u, it)
               => Refused("submitOrder", 400, "Order deadline has passed")
          /\ \A u \in Users, n \in LedgerNames, b \in ClockEdits :
               (HasOrder(sid, n) /\ b.array /\ EditOrder(sid, u, n, b))
               => /\ resp' = Ok("editOrder")
                  /\ sessions'[sid].orders[FindIndex(Orders(sid), n)].items
                       = EditedItems(b.items)
          /\ \A u \in Users, f \in ClockFees :
               (ValidFee(f) /\ ChangeDeliveryFee(sid, u, f))
               => /\ resp' = Ok("changeDeliveryFee")
                  /\ sessions'[sid].deliveryFee = ParseFloat(f).v
          /\ \A u \in Users, n \in LedgerNames :
               (HasOrder(sid, n) /\ UpdatePayment(sid, u, n, PaidBody))
               => /\ resp' = Ok("updatePayment")
                  /\ sessions'[sid].orders[FindIndex(Orders(sid), n)].payment.status
                       = "paid"
          /\ \A u \in Users, n \in LedgerNames :
               (HasOrder(sid, n) /\ u.id = sessions[sid].host
                  /\ ConfirmPayment(sid, u, n))
               => /\ resp' = Ok("confirmPayment")
                  /\ sessions'[sid].orders[FindIndex(Orders(sid), n)]
                       .payment.confirmedByHost
          /\ \A u \in Users :
               (u.id = sessions[sid].host /\ Treat(sid, u, TreatAll))
               => /\ resp'.code = 200
                  /\ \A k \in 1..Len(Orders(sid)) :
                       sessions'[sid].orders[k].payment.status = "treated"
          /\ \A u \in Users :
               CloseSession(sid, u)
               => resp' = Ok("closeSession") /\ sessions'[sid].status = "closed"]_vars

\* C6 witness: an active session past its deadline has just accepted an
\* editOrder on its existing order
C6_EditedAfterDeadline ==
  \E sid \in DOMAIN sessions :
    /\ PastDeadline(sid)
    /\ Len(Orders(sid)) > 0
    /\ resp = Ok("editOrder")

\* C7: a caller who is not the session's host always gets the forbidden
\* error from confirmPayment and from treat; the call changes no order and
\* publishes no event.
C7_NonHostForbidden ==
  [][\A sid \in SessionIds, u \in Users :
       (Exists(sid) /\ u.id # sessions[sid].host)
       => /\ \A n \in LedgerNames :
               ConfirmPayment(sid, u, n)
               => Refused("confirmPayment", 403, "Only the host can confirm payments")
          /\ \A ns \in LedgerTreats :
               Treat(sid, u, ns)
               => Refused("treat", 403, "Only the host can treat participants")]_vars

\* C7 witness: the guest's confirmPayment has just been refused in a
\* session holding two orders
C7_GuestConfirmRefused ==
  \E sid \in DOMAIN sessions :
    /\ Len(Orders(sid)) = 2
    /\ resp = Reply("confirmPayment", 403, "Only the host can confirm payments")

\* C8: treat("all") by the host sets payment.status = treated on every
\* order of the session and returns treatedCount = the number of orders
\* (0, with success, when there are none).
C8_TreatAllTreatsEveryOrder ==
  [][\A sid \in SessionIds, u \in Users :
       (Exists(sid) /\ u.id = sessions[sid].host /\ Treat(sid, u, TreatAll))
       => /\ resp'.code = 200
          /\ resp'.treated = Len(Orders(sid))
          /\ Len(sessions'[sid].orders) = Len(Orders(sid))
          /\ \A k \in 1..Len(Orders(sid)) :
               sessions'[sid].orders[k].payment.status = "treated"]_vars

\* C8 witness: a treat has just answered treatedCount 2 (only treat("all")
\* can reach two orders here)
C8_TreatedBoth ==
  \E sid \in DOMAIN sessions :
    /\ resp.op = "treat"
    /\ resp.treated = 2
    /\ Len(Orders(sid)) = 2

\* C9: treat overwrites whatever payment state a targeted order had: after
\* updatePayment(name, paid) and a treat covering that name the order is
\* treated, not paid.
C9_TreatOverwrites ==
  [][\A sid \in SessionIds, u \in Users, ns \in LedgerTreats :
       (Exists(sid) /\ u.id = sessions[sid].host /\ Treat(sid, u, ns))
       => \A k \in 1..Len(Orders(sid)) :
            Orders(sid)[k].participantName \in TargetNames(sessions[sid], ns)
            => /\ sessions'[sid].orders[k].payment.status = "treated"
               /\ Orders(sid)[k].payment.status \in overwrote']_vars

\* C9 witness: the treat that has just run replaced a paid payment
C9_PaidThenTreated ==
  \E sid \in DOMAIN sessions :
    /\ resp.op = "treat"
    /\ resp.code = 200
    /\ "paid" \in overwrote
    /\ \E k \in 1..Len(Orders(sid)) : Orders(sid)[k].payment.status = "treated"

\* C10: every order whose payment.status is treated has method treated,
\* confirmedByHost true and paidBy = the session's hostName, after any
\* sequence of treat, updatePayment, confirmPayment and submitOrder calls.
C10_TreatedIsSettledByHost ==
  \A sid \in DOMAIN sessions :
    \A k \in 1..Len(Orders(sid)) :
      Orders(sid)[k].payment.status = "treated"
      => /\ Orders(sid)[k].payment.method = "treated"
         /\ Orders(sid)[k].payment.confirmedByHost
         /\ Orders(sid)[k].payment.paidBy = sessions[sid].hostName

\* C11: payment.confirmedByHost of an order only goes from false to true: an
\* order that is host-confirmed and is still in the session after a request
\* (updatePayment, a resubmission, editOrder, ...) is still host-confirmed,
\* and updatePayment leaves confirmedByHost as it found it.
C11_ConfirmedNeverReverts ==
  [][\A sid \in SessionIds, n \in LedgerNames :
       (HasOrder(sid, n) /\ FindIndex(sessions'[sid].orders, n) > 0
          /\ OrderOf(sid, n).payment.confirmedByHost)
       => sessions'[sid].orders[FindIndex(sessions'[sid].orders, n)]
            .payment.confirmedByHost]_vars

\* the status a body asks for, when it names one of the schema's statuses
AsksStatus(b) == b.status.t = "string" /\ b.status.v \in PaymentStatuses

\* C12: updatePayment on an existing order sets payment.status to the
\* requested status, method to transfer when none is given, paidBy to the
\* caller's name when none is given, and paidAt to the current time exactly
\* when the new status is not pending (an update to pending stamps no
\* paidAt); for a name with no order it answers not-found and changes nothing.
C12_UpdatePaymentStoresRequest ==
  [][\A sid \in SessionIds, u \in Users, n \in PaymentNames, b \in PaymentBodies :
       (Exists(sid) /\ AsksStatus(b) /\ UpdatePayment(sid, u, n, b))
       => IF HasOrder(sid, n)
          THEN LET after == sessions'[sid].orders[FindIndex(Orders(sid), n)].payment
               IN /\ resp' = Ok("updatePayment")
                  /\ after.status = b.status.v
                  /\ (b.method.t = "undefined" => after.method = "transfer")
                  /\ (b.paidBy.t = "undefined" => after.paidBy = u.name)
                  /\ (b.status.v # "pending" => after.paidAt = now)
                  /\ (b.status.v = "pending"
                        => after.paidAt \in {NullTime, OrderOf(sid, n).payment.paidAt})
          ELSE Refused("updatePayment", 404, "Order not found")]_vars

\* the sum of f[k] over the indices k in S
RECURSIVE SumOver(_, _)
SumOver(f, S) ==
  IF S = {} THEN 0
  ELSE LET k == CHOOSE x \in S : TRUE IN f[k] + SumOver(f, S \ {k})

\* price * quantity added up over the items that are not unavailable
AvailableTotal(items) ==
  SumOver([k \in 1..Len(items) |-> items[k].price * items[k].quantity],
          {k \in 1..Len(items) : ~items[k].unavailable})

\* the ratio r is the quotient a / b
IsQuotient(r, a, b) == r.den > 0 /\ r.num * b = a * r.den

\* the ratio t is n + r
IsSum(t, n, r) == t.den > 0 /\ t.num * r.den = (n * r.den + r.num) * t.den

\* C13: for a session with orders, calculateCosts gives one entry per order
\* with itemsTotal = the sum of price * quantity over the items that are not
\* unavailable, deliveryShare = deliveryFee / number of orders and total =
\* itemsTotal + deliveryShare; for a session with no orders it gives the
\* empty sequence.
C13_CostsPerOrder ==
  \A sid \in DOMAIN sessions :
    LET costs == calculateCosts(sessions[sid])
        n == Len(Orders(sid))
    IN /\ Len(costs) = n
       /\ (n = 0 => costs = <<>>)
       /\ \A k \in 1..n :
            /\ costs[k].name = Orders(sid)[k].participantName
            /\ costs[k].itemsTotal = AvailableTotal(Orders(sid)[k].items)
            /\ IsQuotient(costs[k].deliveryShare, sessions[sid].deliveryFee, n)
            /\ IsSum(costs[k].total, costs[k].itemsTotal, costs[k].deliveryShare)

\* C13 witness: the example of the claim: fee 30, Ann's [Tea 10 x2] and
\* Bob's [Coffee 15 x1] cost (20, 15, 35) and (15, 15, 30)
C13_TeaAndCoffeeExample ==
  \E sid \in DOMAIN sessions :
    LET costs == calculateCosts(sessions[sid])
    IN /\ sessions[sid].deliveryFee = 30
       /\ Ledger(Orders(sid))
            = << [participantName |-> "Ann",
                  items |-> <<RawItem(Tea, 10, 2, FALSE)>>],
                 [participantName |-> "Bob",
                  items |-> <<RawItem(Coffee, 15, 1, FALSE)>>] >>
       /\ costs[1].itemsTotal = 20
       /\ costs[1].deliveryShare = [num |-> 15, den |-> 1]
       /\ costs[1].total = [num |-> 35, den |-> 1]
       /\ costs[2].itemsTotal = 15
       /\ costs[2].deliveryShare = [num |-> 15, den |-> 1]
       /\ costs[2].total = [num |-> 30, den |-> 1]

\* the sum of two ratios
AddRatio(a, b) == Ratio(a.num * b.den + b.num * a.den, a.den * b.den)

\* the sum of the deliveryShare of the first k cost entries
RECURSIVE ShareSum(_, _)
ShareSum(costs, k) ==
  IF k = 0 THEN Ratio(0, 1)
  ELSE AddRatio(ShareSum(costs, k - 1), costs[k].deliveryShare)

\* C14: in every session with at least one order the deliveryShare values of
\* the cost entries add up to the session's deliveryFee, after any sequence
\* of submitOrder, deleteOrder, editOrder and changeDeliveryFee.
C14_SharesAddUpToFee ==
  \A sid \in DOMAIN sessions :
    Len(Orders(sid)) > 0
    => ShareSum(calculateCosts(sessions[sid]), Len(Orders(sid)))
         = Ratio(sessions[sid].deliveryFee, 1)

\* C14 witness: three orders, Cy's first, share a fee that has just been
\* changed to 60
C14_ThreeShareSixty ==
  \E sid \in DOMAIN sessions :
    /\ Len(Orders(sid)) = 3
    /\ Orders(sid)[1].participantName = "Cy"
    /\ sessions[sid].deliveryFee = 60
    /\ resp = Ok("changeDeliveryFee")

\* what an order's owner is charged
Charge(entry) ==
  [itemsTotal |-> entry.itemsTotal, deliveryShare |-> entry.deliveryShare,
   total |-> entry.total]

\* price * quantity of item k, counted as the flag after the switch says
ToggleDelta(items, k) ==
  IF items[k].unavailable
  THEN items[k].price * items[k].quantity
  ELSE 0 - items[k].price * items[k].quantity

\* C15: an unavailable item adds nothing to its owner's itemsTotal, and an
\* editOrder that only switches one item's unavailable flag moves the owner's
\* itemsTotal and total by that item's price * quantity and nothing else:
\* the owner's deliveryShare and every other participant's itemsTotal,
\* deliveryShare and total are as before.
C15_ToggleTouchesOwnerOnly ==
  [][\A sid \in SessionIds, n \in CostNames :
       HasOrder(sid, n)
       => \A k \in 1..Len(OrderOf(sid, n).items) :
            EditOrder(sid, Ann, n, ToggleBody(OrderOf(sid, n).items, k))
            => LET i == FindIndex(Orders(sid), n)
                   before == calculateCosts(sessions[sid])
                   after == calculateCosts(sessions'[sid])
               IN /\ Len(after) = Len(before)
                  /\ \A j \in 1..Len(before) :
                       j # i => Charge(after[j]) = Charge(before[j])
                  /\ after[i].deliveryShare = before[i].deliveryShare
                  /\ after[i].itemsTotal
                       = before[i].itemsTotal + ToggleDelta(OrderOf(sid, n).items, k)
                  /\ IsSum(after[i].total, after[i].itemsTotal, after[i].deliveryShare)
                  /\ (\A x \in 1..Len(after[i].items) : after[i].items[x].unavailable)
                       => after[i].itemsTotal = 0]_vars

\* C15 witness: an editOrder has just left Ann's only item unavailable while
\* two other participants have orders
C15_ToggledAmongThree ==
  \E sid \in DOMAIN sessions :
    /\ resp = Ok("editOrder")
    /\ Len(Orders(sid)) = 3
    /\ HasOrder(sid, "Ann")
    /\ OrderOf(sid, "Ann").items[1].unavailable
    /\ calculateCosts(sessions[sid])[FindIndex(Orders(sid), "Ann")].itemsTotal = 0

Committed(r) == requests[r].commitSeq > 0
Published(r) == requests[r].publishSeq > 0

\* the committed request of a participant after which no other request of
\* that participant was committed
CommittedLast(r) ==
  /\ Committed(r)
  /\ \A q \in 1..MaxRequests :
       (Committed(q) /\ requests[q].user = requests[r].user)
       => requests[q].commitSeq <= requests[r].commitSeq

\* C16: when submitOrder requests of one participantName overlap on a
\* session (each reads, changes its copy, saves), the stored session has
\* exactly one order for that name, with the items of the request that was
\* committed last, also when the name had no order before either request.
C16_LastCommittedWins ==
  \A r \in 1..MaxRequests :
    CommittedLast(r)
    => LET orders == sessions[requests[r].sid].orders
           mine == {k \in 1..Len(orders) :
                      orders[k].participantName = requests[r].user}
       IN /\ Cardinality(mine) = 1
          /\ \A k \in mine : orders[k].items = SubmittedItems(RaceItems(r))

\* no request is between its read and its response, and every request that
\* was committed reported success
Settled ==
  \A r \in 1..MaxRequests :
    /\ requests[r].pc \in {"idle", "done"}
    /\ Committed(r) => Published(r)

\* the orderings of a set of requests
Orderings(S) ==
  {p \in [1..Cardinality(S) -> S] :
     \A i, j \in 1..Cardinality(S) : i # j => p[i] # p[j]}

\* the ledger after the submitOrder of the requests p[1], ..., p[k], run one
\* after the other on a session without orders
RECURSIVE OneByOne(_, _)
OneByOne(p, k) ==
  IF k = 0 THEN <<>>
  ELSE UpsertOrder(OneByOne(p, k - 1),
                   [participantName |-> requests[p[k]].user,
                    items |-> SubmittedItems(RaceItems(p[k]))])

\* C17: mutations of one session are serialized: at most one request per
\* sessionId is between its read of the session and its write, and when the
\* requests that ran all reported success the stored orders are what running
\* them one after the other, in some order, would have stored.
C17_MutationsSerialized ==
  /\ \A sid \in SessionIds :
       Cardinality({r \in 1..MaxRequests :
                      requests[r].pc = "save" /\ requests[r].sid = sid}) <= 1
  /\ \A sid \in DOMAIN sessions :
       Settled
       => LET won == {r \in 1..MaxRequests : Published(r)}
          IN \E p \in Orderings(won) :
               Ledger(Orders(sid)) = OneByOne(p, Cardinality(won))

\* C18: the session-updated events of a session are sent in the order in
\* which their mutations were committed, every event carries the orders that
\* were stored right after its own mutation, and so, once no request is in
\* flight, the last event carries the stored orders.
C18_EventsFollowCommits ==
  /\ \A r \in 1..MaxRequests :
       Published(r) => requests[r].doc.orders = requests[r].stored
  /\ \A r, q \in 1..MaxRequests :
       (Published(r) /\ Published(q) /\ requests[r].commitSeq < requests[q].commitSeq)
       => requests[r].publishSeq < requests[q].publishSeq
  /\ \A r \in 1..MaxRequests :
       (Settled /\ requests[r].publishSeq = Publications /\ Published(r))
       => requests[r].doc.orders = Orders(requests[r].sid)

\* C20: an event is sent only after the write of its mutation was committed,
\* and an emit that fails changes nothing of the mutation's outcome: the
\* caller still gets the success answer and the committed change stays in
\* the store.
C20_PublishFailureIsSwallowed ==
  [][\A r \in 1..MaxRequests :
       /\ PublishSubmit(r)
          => /\ Committed(r)
             /\ \E k \in 1..Len(requests[r].stored) :
                  requests[r].stored[k].participantName = requests[r].user
       /\ PublishSubmitThrows(r)
          => /\ resp' = Ok("submitOrder")
             /\ sessions' = sessions]_vars

MutationOps ==
  {"submitOrder", "editOrder", "deleteOrder", "updatePayment", "confirmPayment",
   "treat", "changeDeliveryFee", "changeRestaurant"}

\* some item of the list has a blank name, a price that is not positive or
\* a quantity below 1
HasInvalidItem(items) ==
  \E k \in 1..Len(items) :
    \/ \A c \in 1..Len(items[k].name) : items[k].name[c] = " "
    \/ items[k].price <= 0
    \/ items[k].quantity < 1

\* C19: every mutation is all-or-nothing: a submitOrder, editOrder,
\* deleteOrder, updatePayment, confirmPayment, treat, changeDeliveryFee or
\* changeRestaurant that answers with an error leaves the stored sessions as
\* they were and sends no event; a submitOrder whose item list holds one
\* invalid item is refused and stores none of its items.
C19_ErrorsChangeNothing ==
  [][/\ (resp' # resp /\ resp'.op \in MutationOps /\ resp'.code # 200)
        => sessions' = sessions /\ emitted' = NoEvent
     /\ \A sid \in SessionIds, it \in ErrorItems :
          (HasInvalidItem(it) /\ SubmitOrder(sid, Bob, it))
          => /\ resp'.op = "submitOrder"
             /\ resp'.code \in {400, 404}
             /\ sessions' = sessions
             /\ emitted' = NoEvent]_vars

\* C19 witness: an open session holding Bob's order has just refused his
\* submitOrder of a valid item followed by an item without a name
C19_RefusedSecondItem ==
  \E sid \in DOMAIN sessions :
    /\ resp = Reply("submitOrder", 400, "Each item must have a name")
    /\ sessions[sid].status = "active"
    /\ HasOrder(sid, "Bob")
    /\ emitted = NoEvent

\* the payment target is empty or holds spaces only
BlankText(t) == \A c \in 1..Len(t) : t[c] = " "

\* the fee is not a number or is below 0
BadFee(f) == f.t # "number" \/ f.v < 0

\* the minutes of the ordering window a body asks for
WindowMinutes(m) == IF m.t = "number" /\ m.v > 0 THEN m.v ELSE 60

Range(seq) == {seq[k] : k \in 1..Len(seq)}

\* the identity is the session's host or is recorded on one of its orders
TookPart(sid, u) ==
  \/ sessions[sid].host = u.id
  \/ \E k \in 1..Len(Orders(sid)) : Orders(sid)[k].user = u.id

\* the sessions of a listing are in the order newest first
ListedNewestFirst(list) ==
  \A i, j \in 1..Len(list) :
    i < j => sessions[list[i]].createdAt >= sessions[list[j]].createdAt

\* C22: the session lists of an identity hold every session of which the
\* identity is the host or is the participant recorded on one of the orders
\* (a guest who has submitted an order finds the session in their list),
\* most recently created first.
C22_ParticipantsFindTheirSessions ==
  \A sid \in DOMAIN sessions, u \in Users :
    /\ TookPart(sid, u) => sid \in Range(History(u))
    /\ (TookPart(sid, u) /\ sessions[sid].status = "active")
         => sid \in Range(ActiveFeed(u))
    /\ ListedNewestFirst(History(u))
    /\ ListedNewestFirst(ActiveFeed(u))

\* the session was created more than 48 hours before the present time
Expired(sid) == now - sessions[sid].createdAt > 48 * 60

\* C23: the retention sweep removes exactly the sessions whose createdAt is
\* more than 48 hours before the sweep, active or closed, and leaves every
\* younger session as it is; a second sweep at the same time changes
\* nothing more, and a request for a removed session is answered not found.
C23_SweepRemovesOldOnly ==
  [][/\ RetentionSweep
        => /\ DOMAIN sessions' = {sid \in DOMAIN sessions : ~Expired(sid)}
           /\ \A sid \in DOMAIN sessions' : sessions'[sid] = sessions[sid]
           /\ Swept(sessions', now') = sessions'
     /\ \A sid \in SweepIds :
          (sid \in swept /\ ~Exists(sid) /\ CloseSession(sid, Ann))
          => Refused("closeSession", 404, "Session not found")]_vars

\* C23 witness: the last sweep removed the session s1 and kept the younger
\* session s2 with its order, and a request for s1 has just been
\* answered not found
C23_SweptOldKeptYoung ==
  /\ swept = {"s1"}
  /\ ~Exists("s1")
  /\ Exists("s2")
  /\ Len(sessions["s2"].orders) = 1
  /\ resp = Reply("closeSession", 404, "Session not found")

\* C24: every line item stored in an order has a name that is not empty, a
\* price above 0 and a quantity of at least 1; editOrder validates items as
\* submitOrder does, so an edit with a price of 0 or less, a quantity below
\* 1 or an empty name is refused and not stored.
C24_StoredItemsAreValid ==
  \A sid \in DOMAIN sessions :
    \A k \in 1..Len(Orders(sid)) :
      \A i \in 1..Len(Orders(sid)[k].items) :
        /\ Orders(sid)[k].items[i].name # <<>>
        /\ Orders(sid)[k].items[i].price > 0
        /\ Orders(sid)[k].items[i].quantity >= 1

C26_HostFieldsHostOnly ==
  [][\A sid \in SessionIds, u \in Users :
       (Exists(sid) /\ u.id # sessions[sid].host)
       => /\ \A f \in HostFees :
               ChangeDeliveryFee(sid, u, f)
               => sessions'[sid].deliveryFee = sessions[sid].deliveryFee
          /\ \A x \in HostRestaurants :
               ChangeRestaurant(sid, u, x)
               => sessions'[sid].restaurantId = sessions[sid].restaurantId]_vars

\* C27: the stored boolean paymentSent of every order equals
\* (payment.status # "pending") after any sequence of submitOrder,
\* updatePayment, confirmPayment and treat, also after the host confirms an
\* order whose payment is still pending.
C27_PaymentSentFollowsStatus ==
  \A sid \in DOMAIN sessions :
    \A k \in 1..Len(Orders(sid)) :
      Orders(sid)[k].paymentSent = (Orders(sid)[k].payment.status # "pending")

\* C28: confirmPayment by the host on an existing order sets confirmedByHost
\* and leaves status, method, paidBy and paidAt of its payment as they were
\* (a pending order stays pending); on a name without an order it fails with
\* 404 'Order not found' and changes nothing.
C28_ConfirmKeepsPayment ==
  [][\A sid \in SessionIds, u \in Users, n \in LedgerNames :
       (Exists(sid) /\ u.id = sessions[sid].host /\ ConfirmPayment(sid, u, n))
       => IF HasOrder(sid, n)
          THEN /\ resp' = Ok("confirmPayment")
               /\ Len(sessions'[sid].orders) = Len(Orders(sid))
               /\ sessions'[sid].orders[FindIndex(Orders(sid), n)].payment
                    = [OrderOf(sid, n).payment EXCEPT !.confirmedByHost = TRUE]
          ELSE Refused("confirmPayment", 404, "Order not found")]_vars

\* C28 witness: the host has just confirmed Bob's order, which is still
\* pending
C28_ConfirmedWhilePending ==
  \E sid \in DOMAIN sessions :
    /\ resp = Ok("confirmPayment")
    /\ HasOrder(sid, "Bob")
    /\ OrderOf(sid, "Bob").payment.status = "pending"
    /\ OrderOf(sid, "Bob").payment.confirmedByHost

\* C29: a successful submitOrder under a participantName that has no order
\* yet appends one order at the end of session.orders, with payment status
\* pending, method transfer and confirmedByHost false, and leaves every
\* order that existed before (items, payment, position) unchanged.
C29_NewOrderAppended ==
  [][\A sid \in SessionIds, u \in Users, it \in LedgerItems :
       (Exists(sid) /\ ~HasOrder(sid, u.name) /\ SubmitOrder(sid, u, it)
          /\ resp'.code = 200)
       => LET new == sessions'[sid].orders
              n == Len(Orders(sid))
          IN /\ Len(new) = n + 1
             /\ new[n + 1].participantName = u.name
             /\ new[n + 1].payment.status = "pending"
             /\ new[n + 1].payment.method = "transfer"
             /\ new[n + 1].payment.confirmedByHost = FALSE
             /\ \A k \in 1..n : new[k] = Orders(sid)[k]]_vars

\* C29 witness: a second participant has just ordered after the first one was
\* treated: the treated order is still first, the new pending one is last
C29_AppendedAfterTreated ==
  \E sid \in DOMAIN sessions :
    /\ resp = Ok("submitOrder")
    /\ Len(Orders(sid)) = 2
    /\ Orders(sid)[1].payment.status = "treated"
    /\ Orders(sid)[2].payment = DefaultPayment

\* the participant names of a sequence of orders or of cost entries
OrderNames(orders) == [k \in 1..Len(orders) |-> orders[k].participantName]

EntryNames(costs) == [k \in 1..Len(costs) |-> costs[k].name]

Without(names, n) == SelectSeq(names, LAMBDA x : x # n)

\* C30: the cost table has one entry per order in the sequence of
\* session.orders, which is the sequence of first submissions: a new name is
\* added at the end, a replacement submission or an editOrder moves nothing,
\* deleteOrder removes one entry and keeps the others in their sequence.
C30_CostsInSubmissionOrder ==
  /\ [](\A sid \in DOMAIN sessions :
          EntryNames(calculateCosts(sessions[sid])) = OrderNames(Orders(sid)))
  /\ [][\A sid \in SessionIds :
          Exists(sid)
          => /\ \A u \in Diners :
                  (SubmitOrder(sid, u, Dish(u)) /\ resp'.code = 200)
                  => /\ OrderNames(sessions'[sid].orders)
                          = IF HasOrder(sid, u.name)
                            THEN OrderNames(Orders(sid))
                            ELSE Append(OrderNames(Orders(sid)), u.name)
                     /\ EntryNames(emitted'.costs) = OrderNames(sessions'[sid].orders)
             /\ \A n \in CostNames :
                  (DeleteOrder(sid, Ann, n) /\ resp'.code = 200)
                  => /\ OrderNames(sessions'[sid].orders)
                          = Without(OrderNames(Orders(sid)), n)
                     /\ EntryNames(emitted'.costs) = OrderNames(sessions'[sid].orders)
             /\ resp' = Ok("editOrder")
                  => /\ OrderNames(sessions'[sid].orders) = OrderNames(Orders(sid))
                     /\ EntryNames(emitted'.costs) = OrderNames(Orders(sid))]_vars

\* C30 witness: Cy, Bob and Ann ordered in this sequence and Bob's order has
\* just been deleted: the table lists Cy before Ann
C30_CyBeforeAnn ==
  \E sid \in DOMAIN sessions :
    /\ resp = Ok("deleteOrder")
    /\ OrderNames(Orders(sid)) = <<"Cy", "Ann">>
    /\ EntryNames(calculateCosts(sessions[sid])) = <<"Cy", "Ann">>

\* C31: treat by the host with a list of names gives the treated payment to
\* exactly the orders whose participantName is in the list, answers with the
\* number of these orders (a listed name without an order is not counted and
\* is no error) and leaves every order that is not in the list unchanged.
C31_TreatListedOnly ==
  [][\A sid \in SessionIds, u \in Users, ns \in LedgerTreats :
       (ns.t = "array" /\ Exists(sid) /\ u.id = sessions[sid].host
          /\ Treat(sid, u, ns))
       => LET listed == {ns.v[i] : i \in 1..Len(ns.v)}
              new == sessions'[sid].orders
              hit == {k \in 1..Len(Orders(sid)) :
                        Orders(sid)[k].participantName \in listed}
          IN /\ resp'.op = "treat"
             /\ resp'.code = 200
             /\ resp'.treated = Cardinality(hit)
             /\ Len(new) = Len(Orders(sid))
             /\ \A k \in 1..Len(new) :
                  IF k \in hit
                  THEN /\ new[k].payment
                            = [status |-> "treated", method |-> "treated",
                               paidBy |-> sessions[sid].hostName,
                               confirmedByHost |-> TRUE, paidAt |-> now]
                       /\ new[k].participantName = Orders(sid)[k].participantName
                       /\ new[k].items = Orders(sid)[k].items
                  ELSE new[k] = Orders(sid)[k]]_vars

\* C31 witness: the host has just treated the list Bob, Zed: one order was
\* counted, Bob's is treated and the host's own is still pending
C31_TreatedBobNotAnn ==
  \E sid \in DOMAIN sessions :
    /\ resp = [Ok("treat") EXCEPT !.treated = 1]
    /\ HasOrder(sid, "Ann") /\ HasOrder(sid, "Bob")
    /\ OrderOf(sid, "Bob").payment.status = "treated"
    /\ OrderOf(sid, "Ann").payment.status = "pending"

\* C32: deleteOrder on a name that has an order removes exactly that order
\* and leaves the other orders and the rest of the session unchanged, and
\* each remaining deliveryShare is deliveryFee divided by the new count; on a
\* name without an order it fails with 404 and changes nothing.  A later
\* submitOrder under the deleted name stores a new order with pending payment.
C32_DeleteRemovesOne ==
  [][\A sid \in SessionIds, u \in Users :
       Exists(sid)
       => /\ \A n \in LedgerNames :
               DeleteOrder(sid, u, n)
               => IF HasOrder(sid, n)
                  THEN LET k == FindIndex(Orders(sid), n)
                           new == sessions'[sid].orders
                       IN /\ resp' = Ok("deleteOrder")
                          /\ Len(new) = Len(Orders(sid)) - 1
                          /\ \A j \in 1..Len(new) :
                               new[j] = Orders(sid)[IF j < k THEN j ELSE j + 1]
                          /\ sessions'[sid] = [sessions[sid] EXCEPT !.orders = new]
                          /\ Len(emitted'.costs) = Len(new)
                          /\ \A j \in 1..Len(new) :
                               IsQuotient(emitted'.costs[j].deliveryShare,
                                          sessions[sid].deliveryFee, Len(new))
                  ELSE Refused("deleteOrder", 404, "Order not found")
          /\ \A it \in LedgerItems :
               (~HasOrder(sid, u.name) /\ SubmitOrder(sid, u, it) /\ resp'.code = 200)
               => /\ HasOrder(sid, u.name)'
                  /\ OrderOf(sid, u.name)'.payment = DefaultPayment
                  /\ OrderOf(sid, u.name)'.paymentSent = FALSE]_vars

\* C32 witness: Bob's order has just been deleted: the host's treated order
\* is the only one left and carries the whole fee
C32_DeletedBobKeptAnn ==
  \E sid \in DOMAIN sessions :
    /\ resp = Ok("deleteOrder")
    /\ Len(Orders(sid)) = 1
    /\ Orders(sid)[1].participantName = "Ann"
    /\ Orders(sid)[1].payment.status = "treated"
    /\ emitted.costs[1].deliveryShare = Ratio(sessions[sid].deliveryFee, 1)

\* C33: a successful editOrder replaces only the items of the named order:
\* the payment and participantName of that order, every other order, and
\* the fee, deadline and status of the session are the same before and after.
C33_EditTouchesItemsOnly ==
  [][\A sid \in SessionIds, b \in ClockEdits :
       (Exists(sid) /\ EditOrder(sid, Ann, "Bob", b) /\ resp'.code = 200)
       => LET k == FindIndex(Orders(sid), "Bob")
          IN /\ k > 0
             /\ sessions'[sid]
                  = [sessions[sid] EXCEPT
                       !.orders[k].items = sessions'[sid].orders[k].items]]_vars

\* C33 witness: Bob's paid order has just been edited in a closed session
\* whose deadline has passed; it is still paid
C33_EditedPaidOrder ==
  \E sid \in DOMAIN sessions :
    /\ resp = Ok("editOrder")
    /\ sessions[sid].status = "closed"
    /\ now > sessions[sid].deadline
    /\ HasOrder(sid, "Bob")
    /\ OrderOf(sid, "Bob").payment.status = "paid"
    /\ OrderOf(sid, "Bob").items = TeaUnavailable

\* the session that request r is addressed to
Addressed(r, sid) == requests[r].pc # "idle" /\ requests[r].sid = sid

\* every session other than sid is stored as before
OthersUntouched(sid) ==
  \A b \in DOMAIN sessions \ {sid} :
    /\ b \in DOMAIN sessions'
    /\ sessions'[b] = sessions[b]
    /\ version'[b] = version[b]

\* the event of this step, if there is one, goes to the room of sid
EventStaysIn(sid) == emitted'.event # "none" => emitted'.room = sid

\* C34: operations on different sessions are independent: an operation
\* addressed to session A, its event included, leaves the stored state of
\* every other session B unchanged, and a mutation in flight on A never
\* keeps a mutation on B from completing.
C34_SessionsIndependent ==
  /\ [][\A a \in SweepIds :
          /\ (\/ CreateSession(Ann, a, GoodPayInfo, Num(30), Num(1), Undefined)
              \/ \E r \in TwoRequests : BeginSubmit(r, a, Bob, RaceItems(r))
              \/ \E r \in TwoRequests : Addressed(r, a) /\ SaveSubmit(r))
             => OthersUntouched(a)
          /\ (\/ DeleteOrder(a, Ann, "Bob")
              \/ \E r \in TwoRequests : Addressed(r, a) /\ PublishSubmit(r))
             => OthersUntouched(a) /\ EventStaysIn(a)]_vars
  /\ \A r \in TwoRequests :
       (requests[r].pc = "save") ~> (requests[r].pc = "done")

\* C34 witness: request 2 has completed on session s2 and sent its event to
\* the room of s2 while request 1 is still waiting for its save on s1
C34_DoneBesideInFlight ==
  /\ requests[1].pc = "save" /\ requests[1].sid = "s1"
  /\ requests[2].pc = "done" /\ requests[2].sid = "s2"
  /\ resp = Ok("submitOrder")
  /\ emitted.event = "session-updated" /\ emitted.room = "s2"
  /\ Len(sessions["s2"].orders) = 1
  /\ Len(sessions["s1"].orders) = 0

\* the save of request r does not meet a version conflict
SaveApplies(r) ==
  ~(requests[r].index > 0 /\ version[requests[r].sid] # requests[r].readVersion)

\* C35: the deadline gates admission at the moment of the check only: a
\* submitOrder whose checks passed before the deadline is committed and
\* broadcast even when the deadline passes before its write completes, and
\* the passing of time aborts or undoes nothing that was accepted.
C35_DeadlineGatesAdmissionOnly ==
  [][/\ \A r \in TwoRequests :
          /\ (requests[r].pc = "save" /\ SaveApplies(r) /\ SaveSubmit(r))
             => LET q == requests[r]
                    new == sessions'[q.sid].orders
                IN /\ requests'[r].pc = "emit"
                   /\ IF q.index > 0
                      THEN new[q.index] = q.doc.orders[q.index]
                      ELSE new = Append(Orders(q.sid), q.doc.orders[Len(q.doc.orders)])
          /\ PublishSubmit(r)
             => /\ resp' = Ok("submitOrder")
                /\ emitted'.event = "session-updated"
                /\ emitted'.orders = requests[r].doc.orders
     /\ Tick => (sessions' = sessions /\ requests' = requests)]_vars

\* C35 witness: an order that was admitted at the last minute of the window
\* is stored and published after the deadline, while a second request
\* whose checks passed is still waiting for its save
C35_StoredPastDeadline ==
  \E sid \in DOMAIN sessions :
    /\ now > sessions[sid].deadline
    /\ requests[1].pc = "done" /\ requests[1].publishSeq > 0
    /\ requests[2].pc = "save"
    /\ Len(Orders(sid)) = 1
    /\ Orders(sid)[1].submittedAt = sessions[sid].deadline

\* C36: once a closeSession has committed, the orders of the session never
\* change again: a submitOrder that read the session as active before the
\* close cannot add or replace an order in the closed session.
C36_ClosedOrdersFrozen ==
  [][\A sid \in DOMAIN sessions :
       sessions[sid].status = "closed"
       => sessions'[sid].orders = sessions[sid].orders]_vars

\* C37: closeSession is idempotent on the stored state: on a session that
\* is already closed it succeeds, leaves status closed and changes no other
\* field (on an active one it changes the status only); on an id that no
\* session has it fails with 404 and creates nothing.
C37_CloseIdempotent ==
  [][\A sid \in SessionIds, u \in Users :
       CloseSession(sid, u)
       => IF Exists(sid)
          THEN /\ resp' = Ok("closeSession")
               /\ DOMAIN sessions' = DOMAIN sessions
               /\ sessions'[sid] = [sessions[sid] EXCEPT !.status = "closed"]
               /\ sessions[sid].status = "closed" => sessions' = sessions
          ELSE /\ Refused("closeSession", 404, "Session not found")
               /\ DOMAIN sessions' = {}]_vars

\* C37 witness: a closeSession has just succeeded after the deadline on a
\* session that holds Bob's paid order; the deadline is the one set at
\* creation
C37_ClosedKeepsRest ==
  \E sid \in DOMAIN sessions :
    /\ resp = Ok("closeSession")
    /\ sessions[sid].status = "closed"
    /\ now > sessions[sid].deadline
    /\ sessions[sid].deadline = sessions[sid].createdAt + 1
    /\ HasOrder(sid, "Bob")
    /\ OrderOf(sid, "Bob").payment.status = "paid"

----------------------------------------------------------------------------
(* GET /api/sessions/:id: the summary of the public view *)

\* costs.reduce((sum, c) => sum + c.itemsTotal, 0) over the first k entries
RECURSIVE ReduceItemsTotal(_, _)
ReduceItemsTotal(costs, k) ==
  IF k = 0 THEN 0 ELSE ReduceItemsTotal(costs, k - 1) + costs[k].itemsTotal

\* costs.reduce((sum, c) => sum + c.total, 0) over the first k entries
RECURSIVE ReduceTotal(_, _)
ReduceTotal(costs, k) ==
  IF k = 0 THEN Ratio(0, 1) ELSE AddRatio(ReduceTotal(costs, k - 1), costs[k].total)

Summary(session) ==
  LET costs == calculateCosts(session)
  IN [totalFood |-> ReduceItemsTotal(costs, Len(costs)),
      totalDelivery |-> session.deliveryFee,
      grandTotal |-> ReduceTotal(costs, Len(costs))]

\* C38: in the getSession result summary.grandTotal equals
\* summary.totalFood + summary.totalDelivery for every session, also for a
\* session with a positive delivery fee and no orders.
C38_GrandTotalAddsUp ==
  \A sid \in DOMAIN sessions :
    Summary(sessions[sid]).grandTotal
      = AddInt(Summary(sessions[sid]).totalFood,
               Ratio(Summary(sessions[sid]).totalDelivery, 1))

\* the issuance of a refresh token to Ann in this step
IssuesToken ==
  \/ Signup("Ann", AnnMail, GoodPassword, Code1) /\ resp' = Reply("signup", 201, "")
  \/ Login(AnnMail, GoodPassword, Code1) /\ resp' = Ok("login")
  \/ VerifyOtp(AnnMail, Code1) /\ resp' = Ok("verifyOtp")

\* the list a user has before the first save
ListOf(store, id) == IF id \in DOMAIN store THEN store[id].refreshTokens ELSE <<>>

\* C39: after any sequence of token issuances (signup, verify-otp, login) the
\* stored refreshTokens list of the user holds at most 5 tokens, the most
\* recently issued ones; a refresh succeeds only with a token that is in the
\* list, so a token removed by logout or pushed out by the cap is refused as
\* revoked.
C39_FiveNewestTokens ==
  /\ [](\A id \in DOMAIN users : Len(users[id].refreshTokens) <= 5)
  /\ [][/\ IssuesToken
           => LET old == ListOf(users, AnnMail)
                  new == ListOf(users', AnnMail)
                  cut == Len(old) + 1 - Len(new)
              IN /\ Len(new) = IF Len(old) < 5 THEN Len(old) + 1 ELSE 5
                 /\ new[Len(new)].token.sub = AnnMail
                 /\ new[Len(new)].token.iat = now
                 /\ \A k \in 1..(Len(new) - 1) : new[k] = old[k + cut]
        /\ \A t \in TokenInputs :
             /\ Refresh(t)
                => /\ users' = users
                   /\ resp' = Ok("refresh")
                        => t \in TokensOf(ListOf(users, AnnMail))
                   /\ (t.signed /\ t # NoToken
                         /\ t \notin TokensOf(ListOf(users, AnnMail)))
                        => resp'.code = 401
             /\ Logout(AnnMail, t)
                => /\ t \notin TokensOf(ListOf(users', AnnMail))
                   /\ \A e \in TokensOf(ListOf(users, AnnMail)) \ {t} :
                        e \in TokensOf(ListOf(users', AnnMail))]_vars

\* C39 witness: the list is full, the last issuance pushed a token out of
\* it that is in it no more, and a refresh has just been refused as revoked
C39_EvictedRefused ==
  /\ AnnMail \in DOMAIN users
  /\ Len(users[AnnMail].refreshTokens) = 5
  /\ evicted # {}
  /\ evicted \cap TokensOf(users[AnnMail].refreshTokens) = {}
  /\ resp = Reply("refresh", 401, "Refresh token has been revoked")

\* C40: verify-otp succeeds only when the submitted code equals the stored
\* code and the stored expiry has not passed; a successful verification
\* clears the stored code, so the same code fails afterwards until a new
\* code is issued; a refused verification changes nothing.
C40_OtpSingleUse ==
  [][\A e \in {AnnMail, ZedMail}, o \in OtpInputs :
       VerifyOtp(e, o)
       => LET good == /\ e \in DOMAIN users
                      /\ users[e].otp # <<>>
                      /\ users[e].otp = Trim(o)
                      /\ ~(now > users[e].otpExpiresAt)
          IN /\ (resp' = Ok("verifyOtp")) <=> good
             /\ good => /\ users'[e].otp = <<>>
                        /\ users'[e].otpExpiresAt = NullTime
                        /\ users'[e].isVerified
             /\ ~good => users' = users /\ resp'.code \in {400, 401, 404}]_vars

\* C40 witness: Ann verified once, her stored code is cleared, and a further
\* verify-otp has just been refused as invalid
C40_UsedCodeRefused ==
  /\ AnnMail \in DOMAIN users
  /\ users[AnnMail].isVerified
  /\ users[AnnMail].otp = <<>>
  /\ Len(users[AnnMail].refreshTokens) = 1
  /\ resp = Reply("verifyOtp", 401, "Invalid verification code")

====
